---- MODULE Spec2Model ----
(***************************************************************************)
(* A model of the hsoundworks audio toolkit: the SQLite persistence layer  *)
(* (database/manager.py), the per-file operations (analyzers/bpm.py,       *)
(* analyzers/features.py, converters/format.py), the standalone BPM script *)
(* (bpm_analyser.py) and the batch handlers of the unified CLI (cli.py).   *)
(*                                                                         *)
(* Units.  A duration passed to save_to_database is a multiple of 1/32 s   *)
(* (every such value is exactly representable as a binary float, so        *)
(* Python's round(d, 1) is the decimal round-half-even of the exact        *)
(* value); a stored duration is a multiple of 10^-DURATION_DECIMAL_PLACES  *)
(* seconds.  A sample rate passed in is a multiple of 1/2 Hz; a stored     *)
(* sample rate is a whole number of Hz.  A file name is a sequence of      *)
(* one-character strings.                                                  *)
(***************************************************************************)
EXTENDS Integers, Sequences, FiniteSets, TLC

VARIABLES
    db,        \* the SQLite file: [exists, rows, seq]
    conns,     \* number of SQLite connections currently open
    dbc,       \* the active call of a database/manager.py function
    csvfile,   \* the CSV file written by export_to_csv: [exists, rows]
    shown,     \* the rows last printed by view_database or filter_loops
    saved,     \* history: arguments of every save_to_database that returned True
    out,       \* the output directory of conversions: [exists, files, empty]
    afc,       \* the active call of audio_file_checker
    run,       \* the active handler or discovery loop
    calls,     \* the per-file operations made by the current top-level call
    log,       \* the BPM log logs/bpm.csv: [dir, exists, rows]
    ret        \* what the last top-level call returned

dbVars == <<db, conns, dbc, csvfile, shown, saved>>

vars ==
    <<db, conns, dbc, csvfile, shown, saved, out, afc, run, calls, log, ret>>

-----------------------------------------------------------------------------
(* Bounds of the model *)

MaxRows == 2

-----------------------------------------------------------------------------
(* Python values and conversions *)

None == [t |-> "none", v |-> 0]

Num(n) == [t |-> "num", v |-> n]

Bool(b) == [t |-> "bool", v |-> IF b THEN 1 ELSE 0]

\* bool(x): None, 0 and False are falsy
Truthy(x) == x.t # "none" /\ x.v # 0

\* a str argument of the command line
Str(s) == [t |-> "str", v |-> IF s = "" THEN 0 ELSE 1, s |-> s]

\* isinstance(x, (int, float))
IsNumber(x) == x.t \in {"num", "bool"}

\* int(x) of a number given in halves: truncation toward zero
IntOfHalves(h) == IF h >= 0 THEN h \div 2 ELSE -((-h) \div 2)

DURATION_DECIMAL_PLACES == 1

RECURSIVE Pow10(_)
Pow10(k) == IF k = 0 THEN 1 ELSE 10 * Pow10(k - 1)

\* stored duration units per second
DurationScale == Pow10(DURATION_DECIMAL_PLACES)

\* a rounding that would cut the digits off
TruncateDuration(n) == (DurationScale * n) \div 32

\* round(d, DURATION_DECIMAL_PLACES) of d = n/32 s, n >= 0, in stored units:
\* round-half-to-even of the exact value
RoundDuration(n) ==
    LET q == (DurationScale * n) \div 32
        r == (DurationScale * n) % 32
    IN  IF r < 16 THEN q
        ELSE IF r > 16 THEN q + 1
        ELSE IF q % 2 = 0 THEN q ELSE q + 1

\* Path(file_path).name: the final component of a path
PathName(p) == IF Len(p) = 0 THEN <<>> ELSE p[Len(p)]

-----------------------------------------------------------------------------
(* Names and paths used as inputs *)

D1 == <<"d", "1">>
D2 == <<"d", "2">>
N_a_wav == <<"a", ".", "w", "a", "v">>
N_b_MP3 == <<"b", ".", "M", "P", "3">>
N_c_txt == <<"c", ".", "t", "x", "t">>
N_d_ogg == <<"d", ".", "o", "g", "g">>
N_e_flac == <<"e", ".", "f", "l", "a", "c">>
N_dot_wav == <<".", "w", "a", "v">>
N_a_ogg == <<"a", ".", "o", "g", "g">>

EmptyPath == <<>>

\* the paths of the model at which there is nothing on disk: d2/a.wav
MissingPaths == { <<D2, N_a_wav>> }

\* Path(file_path).exists()
OnDisk(p) == p \notin MissingPaths

\* the characters of the names above, in code-point order
Alphabet ==
    <<".", "1", "2", "3", "M", "P", "a", "b", "c", "d", "e", "f", "g", "l",
      "m", "o", "p", "t", "v", "w", "x">>

\* ord(c)
CharCode(c) == CHOOSE i \in 1..Len(Alphabet) : Alphabet[i] = c

\* a < b for strings, as SQLite's BINARY collation and Python compare them
RECURSIVE NameLess(_, _)
NameLess(a, b) ==
    IF Len(b) = 0 THEN FALSE
    ELSE IF Len(a) = 0 THEN TRUE
    ELSE IF a[1] # b[1] THEN CharCode(a[1]) < CharCode(b[1])
    ELSE NameLess(Tail(a), Tail(b))

\* str.lower()
LowerChar(c) ==
    CASE c = "M" -> "m"
      [] c = "P" -> "p"
      [] OTHER -> c

Lower(s) == [i \in 1..Len(s) |-> LowerChar(s[i])]

\* str.endswith(suffix)
EndsWith(s, suffix) ==
    /\ Len(s) >= Len(suffix)
    /\ SubSeq(s, Len(s) - Len(suffix) + 1, Len(s)) = suffix

\* str.endswith(tuple of suffixes)
EndsWithAny(s, suffixes) ==
    \E k \in 1..Len(suffixes) : EndsWith(s, suffixes[k])

\* str.rfind(c), counted from 1; 0 when c does not occur
RFind(s, c) ==
    IF \E i \in 1..Len(s) : s[i] = c
    THEN CHOOSE i \in 1..Len(s) :
             s[i] = c /\ \A j \in (i + 1)..Len(s) : s[j] # c
    ELSE 0

\* PurePath.suffix: the final component's last extension; none when the
\* only dot leads or ends the name
Suffix(name) ==
    LET i == RFind(name, ".")
    IN  IF 1 < i /\ i < Len(name) THEN SubSeq(name, i, Len(name)) ELSE <<>>

\* a stem that would keep the suffix
WholeName(name) == name

\* PurePath.stem: the final component without its suffix
Stem(name) ==
    LET i == RFind(name, ".")
    IN  IF 1 < i /\ i < Len(name) THEN SubSeq(name, 1, i - 1) ELSE name

\* str.strip(c)
RECURSIVE Strip(_, _)
Strip(s, c) ==
    IF Len(s) = 0 THEN s
    ELSE IF s[1] = c THEN Strip(Tail(s), c)
    ELSE IF s[Len(s)] = c THEN Strip(SubSeq(s, 1, Len(s) - 1), c)
    ELSE s

AUDIO_EXTENSIONS ==
    << <<".", "m", "p", "3">>, <<".", "w", "a", "v">>,
       <<".", "f", "l", "a", "c">>, <<".", "o", "g", "g">> >>

\* the set the handlers of cli.py test a suffix against
HandlerExtensions == {AUDIO_EXTENSIONS[k] : k \in 1..Len(AUDIO_EXTENSIONS)}

SaveArg(p, sr, d) == [path |-> p, sample_rate |-> sr, duration |-> d]

\* arguments save_to_database accepts: sample rates in 1/2 Hz (1 Hz, 1.5 Hz,
\* 0.5 Hz), durations in 1/32 s (1 s, 0.28125 s, 0.03125 s)
AcceptedSaveArgs ==
    { SaveArg(<<D1, N_a_wav>>, Num(2), Num(32)),
      SaveArg(<<D2, N_a_wav>>, Num(3), Num(9)),
      SaveArg(<<D1, N_b_MP3>>, Num(2), Num(1)),
      SaveArg(<<D1, N_b_MP3>>, Num(1), Num(32)) }

\* arguments it rejects: an empty path, and a sample rate or a duration
\* that is None, zero or negative
RejectedSaveArgs ==
    { SaveArg(EmptyPath, Num(2), Num(32)) }
    \cup { SaveArg(<<D1, N_a_wav>>, sr, Num(32)) :
               sr \in {None, Num(0), Num(-2)} }
    \cup { SaveArg(<<D1, N_a_wav>>, Num(2), d) :
               d \in {None, Num(0), Num(-32)} }

SaveArgs == AcceptedSaveArgs \cup RejectedSaveArgs

\* output_file of export_to_csv: "" or a file name
OutputFiles == {"", "out.csv"}

DEFAULT_MIN_DURATION == 30

\* min_duration of filter_loops, in stored duration units: None, -0.1 s,
\* 0, 0.1 s and the default
MinDurationArgs == {None, Num(-1), Num(0), Num(1), Num(DEFAULT_MIN_DURATION)}

NoArgs == [path |-> EmptyPath, sample_rate |-> None, duration |-> None,
           output_file |-> "", min_duration |-> None]

SaveCall(a) == [NoArgs EXCEPT !.path = a.path,
                              !.sample_rate = a.sample_rate,
                              !.duration = a.duration]

-----------------------------------------------------------------------------
(* The audio_files table *)

Row(id, name, sr, dur) ==
    [id |-> id, file_name |-> name, sample_rate |-> sr,
     duration_seconds |-> dur]

\* INSERT OR REPLACE INTO audio_files (file_name, sample_rate,
\* duration_seconds): the only uniqueness constraint of the table is the
\* AUTOINCREMENT primary key, which the statement does not supply, so no
\* existing row ever conflicts and the statement always adds a row.
InsertOrReplace(d, name, sr, dur) ==
    [d EXCEPT !.rows = Append(@, Row(d.seq + 1, name, sr, dur)),
              !.seq = @ + 1]

\* a setup that would recreate the table
DropAndCreateTable(d) == [d EXCEPT !.exists = TRUE, !.rows = <<>>]

\* CREATE TABLE IF NOT EXISTS audio_files
CreateTableIfNotExists(d) == [d EXCEPT !.exists = TRUE]

\* a check that would turn away a path with nothing on disk
ExistingPath(p) == p # EmptyPath /\ OnDisk(p)

\* "if not file_path: return False"; a path that does not exist prints a
\* warning and the function continues
PathAccepted(p) == p # EmptyPath

\* the argument checks of save_to_database
SaveArgsValid(a) ==
    /\ PathAccepted(a.path)
    /\ IsNumber(a.sample_rate) /\ a.sample_rate.v > 0
    /\ IsNumber(a.duration) /\ a.duration.v > 0

\* the row values save_to_database binds to the INSERT
SaveValues(a) ==
    [file_name |-> PathName(a.path),
     sample_rate |-> IntOfHalves(a.sample_rate.v),
     duration_seconds |-> RoundDuration(a.duration.v)]

\* SELECT ... ORDER BY: insertion of a row into an ordered result
Before(a, b, order) ==
    IF order = "file_name" THEN NameLess(a.file_name, b.file_name)
    ELSE IF order = "duration_desc"
         THEN a.duration_seconds > b.duration_seconds
    ELSE FALSE

RECURSIVE InsertOrdered(_, _, _)
InsertOrdered(s, x, order) ==
    IF Len(s) = 0 THEN <<x>>
    ELSE IF Before(x, s[1], order) THEN <<x>> \o s
    ELSE <<s[1]>> \o InsertOrdered(Tail(s), x, order)

RECURSIVE OrderBy(_, _)
OrderBy(rows, order) ==
    IF Len(rows) = 0 THEN <<>>
    ELSE InsertOrdered(OrderBy(SubSeq(rows, 1, Len(rows) - 1), order),
                       rows[Len(rows)], order)

\* the three selected columns of a row
Columns(r) == <<r.file_name, r.sample_rate, r.duration_seconds>>

ColumnsOf(rows) == [i \in 1..Len(rows) |-> Columns(rows[i])]

\* SELECT file_name, sample_rate, duration_seconds FROM audio_files
SelectAll(d) == ColumnsOf(d.rows)

\* the same query without its ORDER BY
SelectUnordered(d) == ColumnsOf(d.rows)

\* ... ORDER BY file_name
SelectByName(d) == ColumnsOf(OrderBy(d.rows, "file_name"))

\* the same query with >= in place of >
SelectAtLeast(d, min) ==
    ColumnsOf(OrderBy(SelectSeq(d.rows,
                                LAMBDA r : r.duration_seconds >= min),
                      "duration_desc"))

\* ... WHERE duration_seconds > ? ORDER BY duration_seconds DESC
SelectLonger(d, min) ==
    ColumnsOf(OrderBy(SelectSeq(d.rows,
                                LAMBDA r : r.duration_seconds > min),
                      "duration_desc"))

CsvHeader == <<"File Name", "Sample Rate (Hz)", "Duration (seconds)">>

-----------------------------------------------------------------------------
(* The file system seen by the operations.  A file has a path, what is   *)
(* at the path (stat), whether it may be read, its size, what a decoder  *)
(* finds in it (content), and for decodable audio its sample rate (in    *)
(* 1/2 Hz), duration (in 1/32 s) and tempo estimate (in 1/10 BPM).       *)

File(path, stat, readable, size, content, sr, dur, tempo, children) ==
    [path |-> path, stat |-> stat, readable |-> readable, size |-> size,
     content |-> content, sr |-> sr, dur |-> dur, tempo |-> tempo,
     children |-> children]

NoFile == File(EmptyPath, "missing", FALSE, 0, "corrupt", 0, 0, 0, <<>>)

\* d1/a.wav: decodable audio, 1 Hz, 1 s, 120.5 BPM
F_a == File(<<D1, N_a_wav>>, "file", TRUE, 1, "audio", 2, 32, 1205, <<>>)
\* d1/b.MP3: an audio name, contents no decoder reads
F_b == File(<<D1, N_b_MP3>>, "file", TRUE, 1, "corrupt", 0, 0, 0, <<>>)
\* d1/c.txt: not an audio file
F_c == File(<<D1, N_c_txt>>, "file", TRUE, 1, "corrupt", 0, 0, 0, <<>>)
\* d1/d.ogg: audio the user may not read
F_d == File(<<D1, N_d_ogg>>, "file", FALSE, 1, "audio", 2, 32, 1205, <<>>)
\* d1/e.flac/a.wav: decodable audio, 2 Hz, 0.25 s, 300.4 BPM
F_ea == File(<<D1, N_e_flac, N_a_wav>>, "file", TRUE, 1, "audio", 4, 8,
             3004, <<>>)
\* d1/e.flac: a directory with an audio name
F_e == File(<<D1, N_e_flac>>, "dir", TRUE, 1, "corrupt", 0, 0, 0, <<F_ea>>)
\* d1/.wav: decodable audio in a hidden file, 310 BPM
F_h == File(<<D1, N_dot_wav>>, "file", TRUE, 1, "audio", 2, 32, 3100, <<>>)
\* d2/a.wav: nothing at the path
F_missing == File(<<D2, N_a_wav>>, "missing", FALSE, 0, "corrupt", 0, 0, 0,
                  <<>>)
\* d2/b.MP3: a file of zero bytes
F_zero == File(<<D2, N_b_MP3>>, "file", TRUE, 0, "corrupt", 0, 0, 0, <<>>)
\* d2/d.ogg: a file that decodes to no samples
F_silent == File(<<D2, N_d_ogg>>, "file", TRUE, 1, "empty", 2, 0, 0, <<>>)

\* d1/a.ogg: decodable audio with the stem of d1/a.wav
F_a_ogg == File(<<D1, N_a_ogg>>, "file", TRUE, 1, "audio", 2, 32, 1205, <<>>)

\* what a folder of the model may hold
FolderFiles == {F_a, F_b, F_c, F_e, F_h}

\* what a per-file operation may be called on directly
FileArgs == FolderFiles \cup {F_d, F_missing, F_zero, F_silent}

MaxFiles == 2

\* the listings of a folder: up to MaxFiles distinct entries, in any order
Listings ==
    UNION { { l \in [1..n -> FolderFiles] :
                \A i, j \in 1..n : l[i] = l[j] => i = j } : n \in 0..MaxFiles }

Folder(stat, readable, entries) ==
    [path |-> <<D1>>, stat |-> stat, readable |-> readable,
     entries |-> entries]

Folders ==
    {Folder("missing", FALSE, <<>>), Folder("file", TRUE, <<>>),
     Folder("dir", FALSE, <<F_a>>)}
    \cup {Folder("dir", TRUE, l) : l \in Listings}

\* the folders "convert" is run on: those, and one that holds a.wav and
\* a.ogg
ConvertFolders == Folders \cup {Folder("dir", TRUE, <<F_a, F_a_ogg>>)}

-----------------------------------------------------------------------------
(* Exceptions *)

\* the base classes of the exception classes the operations meet
Bases(e) ==
    CASE e \in {"FileNotFoundError", "PermissionError", "NotADirectoryError",
                "IsADirectoryError"} -> {"OSError"}
      [] e = "ParameterError" -> {"LibrosaError"}
      [] e = "LibsndfileError" -> {"SoundFileError", "RuntimeError"}
      [] e = "NoBackendError" -> {"DecodeError"}
      [] OTHER -> {}

\* isinstance(e, h)
IsInstance(e, h) == e = h \/ h \in Bases(e)

\* an except clause of the given classes catches e
Catches(handlers, e) == \E h \in handlers : IsInstance(e, h)

\* what librosa.load may raise on contents it cannot decode
DecoderErrors == {"NoBackendError", "ParameterError", "ValueError", "OSError"}

\* the errors the decoder may meet in the contents of f
ErrorsIn(f) ==
    IF f.content = "corrupt" THEN DecoderErrors ELSE {"NoBackendError"}

\* librosa.load(file_path): "ok", "empty" (an array of no samples) or the
\* exception raised; e is the error the decoder meets in undecodable contents
Load(f, e) ==
    CASE f.stat = "missing" -> "FileNotFoundError"
      [] f.stat = "dir" -> "IsADirectoryError"
      [] ~f.readable -> "PermissionError"
      [] f.content = "audio" -> "ok"
      [] f.content = "empty" -> "empty"
      [] OTHER -> e

\* round(x) of x given in tenths: round-half-to-even
RoundTenths(t) ==
    LET q == t \div 10
        r == t % 10
    IN  IF r < 5 THEN q
        ELSE IF r > 5 THEN q + 1
        ELSE IF q % 2 = 0 THEN q ELSE q + 1

-----------------------------------------------------------------------------
(* The per-file operations.  Each yields the value returned, the         *)
(* exception that left the function ("none" when it returned) and        *)
(* whether librosa.load was invoked.                                     *)

Returned(value, decoder) ==
    [value |-> value, raised |-> "none", decoder |-> decoder]

Raised(e) == [value |-> None, raised |-> e, decoder |-> TRUE]

MIN_BPM == 0
MAX_BPM == 300

\* the tempo, in tenths, draws the "Unusual BPM" warning
UnusualTempo(t) == t <= 10 * MIN_BPM \/ t > 10 * MAX_BPM

BpmHandlers ==
    {"LibrosaError", "FileNotFoundError", "PermissionError", "ValueError",
     "TypeError", "MemoryError"}

\* analyzers/bpm.py
calculate_bpm(f, e) ==
    IF f.stat # "file" THEN Returned(None, FALSE)
    ELSE IF ~EndsWithAny(Lower(PathName(f.path)), AUDIO_EXTENSIONS)
         THEN Returned(None, FALSE)
    ELSE IF f.size = 0 THEN Returned(None, FALSE)
    ELSE LET o == Load(f, e)
         IN  IF o = "ok" THEN Returned(Num(RoundTenths(f.tempo)), TRUE)
             ELSE IF o = "empty" THEN Returned(None, TRUE)
             ELSE IF Catches(BpmHandlers, o) THEN Returned(None, TRUE)
             ELSE Raised(o)

\* bpm_analyser.py: every Exception is caught
hsbpm_calculate_bpm(f, e) ==
    LET o == Load(f, e)
    IN  IF o = "ok" THEN Returned(Num(RoundTenths(f.tempo)), TRUE)
        ELSE Returned(None, TRUE)

SUPPORTED_FORMATS ==
    { <<"w", "a", "v">>, <<"f", "l", "a", "c">>, <<"o", "g", "g">>,
      <<"m", "p", "3">>, <<"a", "i", "f", "f">>, <<"m", "4", "a">> }

ConvertHandlers ==
    {"LibrosaError", "SoundFileError", "FileNotFoundError",
     "PermissionError", "OSError", "ValueError", "TypeError", "MemoryError"}

\* the environment of one conversion: the error the decoder meets, whether
\* the output directory can be created and written to, and how sf.write
\* ends; a directory that cannot be written to is one sf.write is never
\* asked to fill, and only decoded audio is ever written
ConvertEnvs(f) ==
    { env \in [e : ErrorsIn(f), mkdirOk : BOOLEAN, writable : BOOLEAN,
               write : {"ok", "empty", "LibsndfileError"}] :
        /\ (~env.mkdirOk \/ ~env.writable \/ f.content # "audio"
               => env.write = "ok")
        /\ (~env.mkdirOk => env.writable) }

\* validations that would look at the input file before the target format
RejectionFileFirst(f, output_dir, target_format) ==
    IF f.path = EmptyPath \/ output_dir = "" \/ target_format = <<>>
    THEN "empty"
    ELSE IF f.stat = "missing" THEN "exists"
    ELSE IF f.stat # "file" THEN "is_file"
    ELSE IF ~f.readable THEN "readable"
    ELSE IF Strip(Lower(target_format), ".") \notin SUPPORTED_FORMATS
    THEN "format"
    ELSE "none"

\* the validations of convert_audio before it creates the output
\* directory: the first that turns the call away, "none" when all pass
Rejection(f, output_dir, target_format) ==
    IF f.path = EmptyPath \/ output_dir = "" \/ target_format = <<>>
    THEN "empty"
    ELSE IF Strip(Lower(target_format), ".") \notin SUPPORTED_FORMATS
    THEN "format"
    ELSE IF f.stat = "missing" THEN "exists"
    ELSE IF f.stat # "file" THEN "is_file"
    ELSE IF ~f.readable THEN "readable"
    ELSE "none"

\* converters/format.py: the result, the validation that turned the call
\* away and the output directory afterwards
convert_audio(f, output_dir, target_format, o, env) ==
    LET fmt == Strip(Lower(target_format), ".")
        made == [o EXCEPT !.exists = TRUE]
        rejected == Rejection(f, output_dir, target_format)
        name == Stem(PathName(f.path)) \o <<".">> \o fmt
        done(value, decoder, dir) ==
            [value |-> Bool(value), raised |-> "none", decoder |-> decoder,
             out |-> dir, rejected |-> rejected,
             written |-> IF value THEN name ELSE <<>>]
        loaded == Load(f, env.e)
    IN  IF rejected # "none" THEN done(FALSE, FALSE, o)
        ELSE IF ~o.exists /\ ~env.mkdirOk THEN done(FALSE, FALSE, o)
        ELSE IF ~env.writable THEN done(FALSE, FALSE, made)
        ELSE IF loaded = "empty" THEN done(FALSE, TRUE, made)
        ELSE IF loaded # "ok"
             THEN IF Catches(ConvertHandlers, loaded)
                  THEN done(FALSE, TRUE, made)
                  ELSE [value |-> None, raised |-> loaded, decoder |-> TRUE,
                        out |-> made, rejected |-> rejected,
                        written |-> <<>>]
        ELSE IF f.sr <= 0 THEN done(FALSE, TRUE, made)
        ELSE IF env.write = "empty"
             THEN done(FALSE, TRUE, [made EXCEPT !.files = @ \ {name},
                                                 !.empty = @ \cup {name}])
        ELSE IF env.write # "ok" THEN done(FALSE, TRUE, made)
        ELSE done(TRUE, TRUE, [made EXCEPT !.files = @ \cup {name},
                                           !.empty = @ \ {name}])

CheckerLoadHandlers ==
    {"LibrosaError", "FileNotFoundError", "ValueError", "TypeError",
     "MemoryError"}

\* analyzers/features.py, up to the database save: "go" (the audio is
\* loaded and its duration known), "none" (the function returns None) or
\* "raise"
CheckerLoad(f, e, mkdirOk) ==
    LET o == Load(f, e)
        stop(outcome, raised, decoder) ==
            [outcome |-> outcome, raised |-> raised, decoder |-> decoder]
    IN  IF f.stat # "file" THEN stop("none", "none", FALSE)
        ELSE IF ~f.readable THEN stop("none", "none", FALSE)
        ELSE IF o = "empty" THEN stop("none", "none", TRUE)
        ELSE IF o # "ok"
             THEN IF Catches(CheckerLoadHandlers, o)
                  THEN stop("none", "none", TRUE)
                  ELSE stop("raise", o, TRUE)
        ELSE IF ~mkdirOk THEN stop("none", "none", TRUE)
        ELSE IF f.dur <= 0 THEN stop("none", "none", TRUE)
        ELSE stop("go", "none", TRUE)

-----------------------------------------------------------------------------
(* One call of a database/manager.py function.  pc: idle -> try ->        *)
(* connected -> finally -> returned; a call rejected by its argument      *)
(* checks goes from idle to returned.                                     *)

IdleCall == [op |-> "none", pc |-> "idle", args |-> NoArgs,
             hasConn |-> FALSE, ret |-> FALSE, caller |-> "none",
             failed |-> "none"]

\* the BPM log before anything was written: neither logs/ nor the file
NoLog == [dir |-> FALSE, exists |-> FALSE, rows |-> <<>>]

NoFlags == [plot |-> FALSE, mfcc |-> FALSE, chroma |-> FALSE,
            spectrogram |-> FALSE, save_db |-> FALSE]

NoResults == [filename |-> <<>>, sample_rate |-> None,
              duration_seconds |-> None, mfcc_calculated |-> FALSE,
              chroma_calculated |-> FALSE, spectrogram_calculated |-> FALSE,
              saved_to_db |-> FALSE]

\* no audio_file_checker in progress.  before: the table when the call
\* began; reported: what setup_database and save_to_database returned to
\* it; steps: how the plot and the three features ended
IdleChecker == [pc |-> "idle", file |-> NoFile, flags |-> NoFlags,
                results |-> NoResults, decoder |-> FALSE, value |-> None,
                raised |-> "none", caller |-> "none",
                before |-> [exists |-> FALSE, rows |-> <<>>, seq |-> 0],
                reported |-> <<>>, steps |-> <<>>]

IdleRun == [handler |-> "none", pc |-> "idle", folder |-> <<>>,
            items |-> <<>>, i |-> 0, results |-> <<>>, raised |-> "none",
            args |-> <<>>, ops |-> <<>>]

NoRet == [op |-> "none", value |-> None, raised |-> "none"]

NoShown == [op |-> "none", rows |-> <<>>]

\* no call is running
Idle ==
    /\ dbc.pc = "idle"
    /\ afc.pc = "idle"
    /\ run.pc \in {"idle", "done", "crashed"}

\* no call is running and the caller has taken the last call's output
Ready == Idle /\ ret = NoRet

\* the checks a function makes before its try block
ArgsAccepted(op, a) ==
    CASE op = "save_to_database" -> SaveArgsValid(a)
      [] op = "export_to_csv" -> a.output_file # ""
      [] op = "filter_loops" ->
             IsNumber(a.min_duration) /\ a.min_duration.v >= 0
      [] OTHER -> TRUE

\* entering the function: its argument checks, and for export_to_csv the
\* creation of the output directory, which may fail with OSError
Enter(op, a, caller, mkdirOk) ==
    IF ArgsAccepted(op, a) /\ (op = "export_to_csv" => mkdirOk)
    THEN [op |-> op, pc |-> "try", args |-> a, hasConn |-> FALSE,
          ret |-> FALSE, caller |-> caller, failed |-> "none"]
    ELSE [op |-> op, pc |-> "returned", args |-> a, hasConn |-> FALSE,
          ret |-> FALSE, caller |-> caller,
          failed |-> IF ArgsAccepted(op, a) THEN "OSError" ELSE "none"]

\* conn = sqlite3.connect(DATABASE_NAME): opens a connection, or raises
\* sqlite3.Error before conn is bound
DbConnect ==
    /\ dbc.pc = "try"
    /\ \E ok \in BOOLEAN :
         IF ok
         THEN /\ conns' = conns + 1
              /\ dbc' = [dbc EXCEPT !.pc = "connected", !.hasConn = TRUE]
         ELSE /\ conns' = conns
              /\ dbc' = [dbc EXCEPT !.pc = "finally", !.ret = FALSE,
                                    !.failed = "sqlite3.Error"]
    /\ UNCHANGED <<db, csvfile, log, shown, saved, out, afc, run, calls, ret>>

\* the error a try block met: sqlite3.Error from a statement, or the error
\* of open(); "none" when it met neither
Failure(fail, opened) ==
    IF fail THEN "sqlite3.Error"
    ELSE IF opened # "ok" THEN opened
    ELSE "none"

\* the statements between connect and the return, with the except clauses:
\* every error they raise is caught and makes the function return False
SetupBody(fail) ==
    /\ db' = IF fail THEN db ELSE CreateTableIfNotExists(db)
    /\ dbc' = [dbc EXCEPT !.pc = "finally", !.ret = ~fail,
                           !.failed = Failure(fail, "ok")]
    /\ UNCHANGED <<csvfile, log, shown, saved>>

SaveBody(fail) ==
    LET v == SaveValues(dbc.args)
        ok == ~fail /\ db.exists
    IN  /\ db' = IF ok
                 THEN InsertOrReplace(db, v.file_name, v.sample_rate,
                                      v.duration_seconds)
                 ELSE db
        /\ saved' = IF ok
                    THEN Append(saved, SaveArg(dbc.args.path,
                                               dbc.args.sample_rate,
                                               dbc.args.duration))
                    ELSE saved
        /\ dbc' = [dbc EXCEPT !.pc = "finally", !.ret = ok,
                               !.failed = Failure(fail, "ok")]
        /\ UNCHANGED <<csvfile, log, shown>>

\* opened: "ok", or the error open(output_file, "w") raises
\* (PermissionError, OSError), which leaves the file as it was
ExportBody(fail, opened) ==
    LET rows == SelectByName(db)
        ok == ~fail /\ db.exists /\ Len(rows) > 0 /\ opened = "ok"
    IN  /\ csvfile' = IF ok
                      THEN [exists |-> TRUE, rows |-> <<CsvHeader>> \o rows]
                      ELSE csvfile
        /\ dbc' = [dbc EXCEPT !.pc = "finally", !.ret = ok,
                               !.failed = Failure(fail, opened)]
        /\ UNCHANGED <<db, shown, saved>>

ViewBody(fail) ==
    LET ok == ~fail /\ db.exists
    IN  /\ shown' = IF ok THEN [op |-> "view_database", rows |-> SelectAll(db)]
                    ELSE shown
        /\ dbc' = [dbc EXCEPT !.pc = "finally", !.ret = ok,
                               !.failed = Failure(fail, "ok")]
        /\ UNCHANGED <<db, csvfile, log, saved>>

FilterBody(fail) ==
    LET ok == ~fail /\ db.exists
    IN  /\ shown' = IF ok
                    THEN [op |-> "filter_loops",
                          rows |-> SelectLonger(db, dbc.args.min_duration.v)]
                    ELSE shown
        /\ dbc' = [dbc EXCEPT !.pc = "finally", !.ret = ok,
                               !.failed = Failure(fail, "ok")]
        /\ UNCHANGED <<db, csvfile, log, saved>>

DbBody ==
    /\ dbc.pc = "connected"
    /\ \E fail \in BOOLEAN :
         CASE dbc.op = "setup_database" -> SetupBody(fail)
           [] dbc.op = "save_to_database" -> SaveBody(fail)
           [] dbc.op = "export_to_csv" ->
                  \E opened \in {"ok", "PermissionError", "OSError"} :
                      ExportBody(fail, opened)
           [] dbc.op = "view_database" -> ViewBody(fail)
           [] dbc.op = "filter_loops" -> FilterBody(fail)
    /\ UNCHANGED <<conns, log, out, afc, run, calls, ret>>

\* a cleanup that would run on the success path only
CloseOnSuccess(c, n) == IF c.hasConn /\ c.ret THEN n - 1 ELSE n

\* finally: if "conn" in locals(): conn.close()
Finally(c, n) == IF c.hasConn THEN n - 1 ELSE n

DbFinally ==
    /\ dbc.pc = "finally"
    /\ conns' = Finally(dbc, conns)
    /\ dbc' = [dbc EXCEPT !.pc = "returned"]
    /\ UNCHANGED <<db, csvfile, log, shown, saved, out, afc, run, calls, ret>>

-----------------------------------------------------------------------------
(* The database functions called directly *)

\* a top-level call starts with no output
Begin == UNCHANGED <<shown, calls, ret>>

\* the caller has taken the output of the call that returned
Forget ==
    /\ Idle
    /\ ret # NoRet
    /\ shown' = NoShown
    /\ calls' = <<>>
    /\ ret' = NoRet
    /\ run' = IdleRun
    /\ UNCHANGED <<db, conns, dbc, csvfile, log, saved, out, afc>>

CallSetup ==
    /\ Ready
    /\ dbc' = Enter("setup_database", NoArgs, "api", TRUE)
    /\ Begin
    /\ UNCHANGED <<db, conns, csvfile, log, saved, out, afc, run>>

CallSave ==
    /\ Ready
    /\ Len(db.rows) < MaxRows
    /\ \E a \in SaveArgs :
         dbc' = Enter("save_to_database", SaveCall(a), "api", TRUE)
    /\ Begin
    /\ UNCHANGED <<db, conns, csvfile, log, saved, out, afc, run>>

CallExport ==
    /\ Ready
    /\ \E f \in OutputFiles, mkdirOk \in BOOLEAN :
         dbc' = Enter("export_to_csv", [NoArgs EXCEPT !.output_file = f],
                      "api", mkdirOk)
    /\ Begin
    /\ UNCHANGED <<db, conns, csvfile, log, saved, out, afc, run>>

CallView ==
    /\ Ready
    /\ dbc' = Enter("view_database", NoArgs, "api", TRUE)
    /\ Begin
    /\ UNCHANGED <<db, conns, csvfile, log, saved, out, afc, run>>

CallFilter ==
    /\ Ready
    /\ \E m \in MinDurationArgs :
         dbc' = Enter("filter_loops", [NoArgs EXCEPT !.min_duration = m],
                      "api", TRUE)
    /\ Begin
    /\ UNCHANGED <<db, conns, csvfile, log, saved, out, afc, run>>

\* the function returns to its caller
ApiReturn ==
    /\ dbc.pc = "returned"
    /\ dbc.caller = "api"
    /\ ret' = [op |-> dbc.op, value |-> Bool(dbc.ret), raised |-> "none"]
    /\ dbc' = IdleCall
    /\ UNCHANGED <<db, conns, csvfile, log, shown, saved, out, afc, run, calls>>

-----------------------------------------------------------------------------
(* The per-file operations called directly *)

\* one per-file operation made by the current top-level call
Event(op, f, r) ==
    [op |-> op, file |-> f, value |-> r.value, raised |-> r.raised,
     decoder |-> r.decoder]

CallCalculateBpm ==
    /\ Ready
    /\ \E f \in FileArgs :
       \E e \in ErrorsIn(f) :
         LET r == calculate_bpm(f, e)
         IN  /\ calls' = <<Event("calculate_bpm", f, r)>>
             /\ ret' = [op |-> "calculate_bpm", value |-> r.value,
                        raised |-> r.raised]
    /\ UNCHANGED <<db, conns, dbc, csvfile, log, shown, saved, out, afc, run>>

\* target_format of convert_audio: wav, .MP3, txt and the empty string
TargetFormats ==
    { <<"w", "a", "v">>, <<".", "M", "P", "3">>, <<"t", "x", "t">>, <<>> }

\* the arguments of the direct calls of convert_audio
ConvertArgs ==
    { <<f, "converted_audio", <<"w", "a", "v">> >> : f \in FileArgs }
    \cup { <<F_a, "converted_audio", t>> : t \in TargetFormats }
    \cup { <<F_a, "", <<"w", "a", "v">> >>,
           <<NoFile, "converted_audio", <<"w", "a", "v">> >>,
           <<F_missing, "converted_audio", <<"t", "x", "t">> >>,
           <<F_d, "", <<"w", "a", "v">> >> }

\* one call of convert_audio: its arguments, the output directory before
\* it, how it ended and the name of the file it converted to
ConvertEvent(a, before, r) ==
    [op |-> "convert_audio", file |-> a[1], value |-> r.value,
     raised |-> r.raised, decoder |-> r.decoder, output_dir |-> a[2],
     target_format |-> a[3], before |-> before, rejected |-> r.rejected,
     written |-> r.written]

CallConvertAudio ==
    /\ Ready
    /\ \E a \in ConvertArgs :
       \E env \in ConvertEnvs(a[1]) :
         LET r == convert_audio(a[1], a[2], a[3], out, env)
         IN  /\ calls' = <<ConvertEvent(a, out, r)>>
             /\ ret' = [op |-> "convert_audio", value |-> r.value,
                        raised |-> r.raised]
             /\ out' = r.out
    /\ UNCHANGED <<db, conns, dbc, csvfile, log, shown, saved, afc, run>>

-----------------------------------------------------------------------------
(* One call of audio_file_checker.  pc: idle -> (setup -> save ->)       *)
(* features -> returned; a call that returns None or raises while        *)
(* loading goes from idle to returned.                                   *)

Flags(plot, mfcc, chroma, spectrogram, save_db) ==
    [plot |-> plot, mfcc |-> mfcc, chroma |-> chroma,
     spectrogram |-> spectrogram, save_db |-> save_db]

\* the keyword arguments the callers pass
FlagSets ==
    {NoFlags, Flags(FALSE, FALSE, FALSE, FALSE, TRUE),
     Flags(TRUE, TRUE, FALSE, FALSE, FALSE),
     Flags(FALSE, FALSE, TRUE, TRUE, TRUE)}

\* a function that would end without "return results"
ReturnsNothing(results) == None

\* return results: the dictionary
Dict(results) == [t |-> "dict", v |-> 1, d |-> results]

\* the call up to "# Save to database": the checks, the load, the output
\* directory and the duration; with save_db it goes on to setup_database()
CheckerBegin(f, flags, e, mkdirOk, caller) ==
    LET l == CheckerLoad(f, e, mkdirOk)
        frame == [IdleChecker EXCEPT !.file = f, !.flags = flags,
                                     !.decoder = l.decoder,
                                     !.caller = caller, !.before = db]
        results == [NoResults EXCEPT !.filename = PathName(f.path),
                                     !.sample_rate = Num(f.sr),
                                     !.duration_seconds = Num(f.dur)]
    IN  IF l.outcome = "go"
        THEN /\ afc' = [frame EXCEPT
                           !.pc = IF flags.save_db THEN "setup"
                                  ELSE "features",
                           !.results = results]
             /\ dbc' = IF flags.save_db
                       THEN Enter("setup_database", NoArgs, "afc", TRUE)
                       ELSE dbc
        ELSE /\ afc' = [frame EXCEPT !.pc = "returned",
                                     !.raised = l.raised]
             /\ dbc' = dbc

\* a save that would store the tempo in place of the sample rate
SaveTempo(f) == SaveArg(f.path, Num(2 * RoundTenths(f.tempo)), Num(f.dur))

\* the arguments of save_to_database(file_path, sr, duration)
CheckerSaveArgs(f) == SaveArg(f.path, Num(f.sr), Num(f.dur))

\* a database function the handler has called, with its arguments
DbOp(op, a) == [op |-> op, args |-> a]

\* the database functions the command has gone through so far, one more
\* when the call was made for a handler
Through(r, caller) ==
    IF caller = "run" THEN [r EXCEPT !.ops = Append(@, DbOp(dbc.op, dbc.args))]
    ELSE r

\* setup_database() has returned: save_to_database(file_path, sr, duration)
CheckerSave ==
    /\ afc.pc = "setup"
    /\ dbc.pc = "returned"
    /\ dbc.caller = "afc"
    /\ dbc' = Enter("save_to_database", SaveCall(CheckerSaveArgs(afc.file)),
                    "afc", TRUE)
    /\ afc' = [afc EXCEPT !.pc = "save",
                           !.reported = Append(@, dbc.ret)]
    /\ run' = Through(run, afc.caller)
    /\ UNCHANGED <<db, conns, csvfile, log, shown, saved, out, calls, ret>>

\* save_to_database has returned: results["saved_to_db"] = True, whatever
\* the two calls returned
CheckerSaved ==
    /\ afc.pc = "save"
    /\ dbc.pc = "returned"
    /\ dbc.caller = "afc"
    /\ dbc' = IdleCall
    /\ afc' = [afc EXCEPT !.pc = "features", !.results.saved_to_db = TRUE,
                           !.reported = Append(@, dbc.ret)]
    /\ run' = Through(run, afc.caller)
    /\ UNCHANGED <<db, conns, csvfile, log, shown, saved, out, calls, ret>>

\* what an optional step (plot, MFCC, chroma, spectrogram) ends with
FeatureOutcomes == {"ok", "ParameterError", "MemoryError"}

PlotHandlers == {"ValueError", "TypeError", "RuntimeError", "MemoryError"}

FeatureHandlers ==
    {"LibrosaError", "ValueError", "TypeError", "RuntimeError", "MemoryError"}

\* the first requested step whose error no except clause catches
FeatureRaise(flags, po, mo, co, so) ==
    IF flags.plot /\ po # "ok" /\ ~Catches(PlotHandlers, po) THEN po
    ELSE IF flags.mfcc /\ mo # "ok" /\ ~Catches(FeatureHandlers, mo) THEN mo
    ELSE IF flags.chroma /\ co # "ok" /\ ~Catches(FeatureHandlers, co) THEN co
    ELSE IF flags.spectrogram /\ so # "ok" /\ ~Catches(FeatureHandlers, so)
         THEN so
    ELSE "none"

\* the plot and the three optional features, then "return results"
CheckerFeatures ==
    /\ afc.pc = "features"
    /\ \E po, mo, co, so \in FeatureOutcomes :
         /\ (~afc.flags.plot => po = "ok")
         /\ (~afc.flags.mfcc => mo = "ok")
         /\ (~afc.flags.chroma => co = "ok")
         /\ (~afc.flags.spectrogram => so = "ok")
         /\ LET e == FeatureRaise(afc.flags, po, mo, co, so)
                results ==
                    [afc.results EXCEPT
                        !.mfcc_calculated =
                            afc.flags.mfcc /\ mo = "ok"
                            /\ FeatureRaise(afc.flags, po, "ok", "ok", "ok")
                                   = "none",
                        !.chroma_calculated =
                            afc.flags.chroma /\ co = "ok"
                            /\ FeatureRaise(afc.flags, po, mo, "ok", "ok")
                                   = "none",
                        !.spectrogram_calculated =
                            afc.flags.spectrogram /\ so = "ok"
                            /\ FeatureRaise(afc.flags, po, mo, co, "ok")
                                   = "none"]
            IN  afc' = [afc EXCEPT !.pc = "returned", !.results = results,
                                   !.value = IF e = "none" THEN Dict(results)
                                             ELSE None,
                                   !.raised = e,
                                   !.steps = <<po, mo, co, so>>]
    /\ UNCHANGED <<db, conns, dbc, csvfile, log, shown, saved, out, run, calls,
                   ret>>

CallAudioFileChecker ==
    /\ Ready
    /\ \E f \in FileArgs, flags \in FlagSets, mkdirOk \in BOOLEAN :
       \E e \in ErrorsIn(f) :
         /\ (flags.save_db => Len(db.rows) < MaxRows)
         /\ CheckerBegin(f, flags, e, mkdirOk, "api")
    /\ Begin
    /\ UNCHANGED <<db, conns, csvfile, log, saved, out, run>>

CheckerReturn ==
    /\ afc.pc = "returned"
    /\ afc.caller = "api"
    /\ calls' = <<Event("audio_file_checker", afc.file, afc)>>
    /\ ret' = [op |-> "audio_file_checker", value |-> afc.value,
               raised |-> afc.raised]
    /\ afc' = IdleChecker
    /\ UNCHANGED <<db, conns, dbc, csvfile, log, shown, saved, out, run>>

-----------------------------------------------------------------------------
(* Discovery: which entries of a folder a loop hands to its operation *)

\* os.listdir filtered by f.lower().endswith(AUDIO_EXTENSIONS)
ListAudio(entries) ==
    SelectSeq(entries,
              LAMBDA f : EndsWithAny(Lower(PathName(f.path)),
                                     AUDIO_EXTENSIONS))

\* a listing with its filter left out
GlobAll(entries) == entries

\* glob("*") or iterdir() filtered by suffix.lower() in (".mp3", ...)
GlobAudio(entries) ==
    SelectSeq(entries,
              LAMBDA f : Lower(Suffix(PathName(f.path))) \in HandlerExtensions)

\* the entries of the folder and then of its sub-directories, as rglob
\* walks them
RECURSIVE Flatten(_)
Flatten(ls) ==
    IF Len(ls) = 0 THEN <<>> ELSE ls[1] \o Flatten(Tail(ls))

Walk(entries) ==
    entries \o Flatten([i \in 1..Len(entries) |-> entries[i].children])

\* a glob pattern "*<ext>" matches the name; the match folds case where
\* the platform's paths do
MatchesPattern(name, ext, foldCase) ==
    EndsWith(IF foldCase THEN Lower(name) ELSE name, ext)

\* [p for ext in (".mp3", ".wav", ".flac", ".ogg") for p in rglob("*" + ext)]
RGlobAudio(entries, foldCase) ==
    Flatten([k \in 1..Len(AUDIO_EXTENSIONS) |->
               SelectSeq(Walk(entries),
                         LAMBDA f : MatchesPattern(PathName(f.path),
                                                   AUDIO_EXTENSIONS[k],
                                                   foldCase))])

\* what Path.glob and Path.rglob yield: nothing for a path that is no
\* directory or may not be listed
Globbable(folder) ==
    IF folder.stat = "dir" /\ folder.readable THEN folder.entries ELSE <<>>

\* one pass of a loop body: the operation, its file and its arguments
Item(op, f, flags, fmt) ==
    [op |-> op, file |-> f, flags |-> flags, fmt |-> fmt]

ItemsOf(op, files, flags, fmt) ==
    [i \in 1..Len(files) |-> Item(op, files[i], flags, fmt)]

\* the number of items that may add a record to the table
Saves(items) ==
    Cardinality({i \in 1..Len(items) :
                    items[i].op \in {"audio_file_checker",
                                     "hscheck.audio_file_checker"}
                    /\ items[i].flags.save_db})

-----------------------------------------------------------------------------
(* The loops: a handler of cli.py or a discover_audio_files.  pc: idle   *)
(* -> (setup ->) loop -> done or crashed; crashed when an exception      *)
(* leaves the handler.                                                   *)

Started(handler, folder, items) ==
    [IdleRun EXCEPT !.handler = handler, !.pc = "loop", !.folder = folder,
                    !.items = items, !.i = 1]

Ended(handler, folder, pc, raised) ==
    [IdleRun EXCEPT !.handler = handler, !.pc = pc, !.folder = folder,
                    !.raised = raised]

\* the value a finished loop returns: the BPM results of a discovery
Return(r) ==
    [op |-> r.handler,
     value |-> IF r.raised = "none"
               THEN [t |-> "list", v |-> 1, l |-> r.results]
               ELSE None,
     raised |-> r.raised]

\* the loop starts, or ends before its first file
Start(r) ==
    /\ run' = r
    /\ ret' = IF r.pc \in {"done", "crashed"} THEN Return(r) ELSE ret
    /\ Saves(r.items) + Len(db.rows) <= MaxRows

\* analyzers/bpm.py discover_audio_files(folder_path)
DiscoverItems(folder) ==
    IF folder.stat # "dir" \/ ~folder.readable THEN <<>>
    ELSE ItemsOf("calculate_bpm", ListAudio(folder.entries), NoFlags, <<>>)

CallDiscover ==
    /\ Ready
    /\ \E folder \in Folders :
         LET items == DiscoverItems(folder)
         IN  Start(IF Len(items) = 0
                   THEN Ended("discover_audio_files", folder, "done", "none")
                   ELSE Started("discover_audio_files", folder, items))
    /\ UNCHANGED <<db, conns, dbc, csvfile, log, shown, saved, out, afc, calls>>

\* what os.listdir(folder_path) raises
ListdirError(folder) ==
    CASE folder.stat = "missing" -> "FileNotFoundError"
      [] folder.stat = "file" -> "NotADirectoryError"
      [] ~folder.readable -> "PermissionError"
      [] OTHER -> "none"

\* bpm_analyser.py discover_audio_files(folder_path)
CallHsbpmDiscover ==
    /\ Ready
    /\ \E folder \in Folders :
         Start(IF ListdirError(folder) # "none"
               THEN Ended("hsbpm.discover_audio_files", folder, "crashed",
                          ListdirError(folder))
               ELSE Started("hsbpm.discover_audio_files", folder,
                            ItemsOf("hsbpm.calculate_bpm",
                                    ListAudio(folder.entries), NoFlags,
                                    <<>>)))
    /\ UNCHANGED <<db, conns, dbc, csvfile, log, shown, saved, out, afc, calls>>

\* the options of "analyze": --bpm, --features and the keyword arguments
AnalyzeArgs ==
    { [bpm |-> TRUE, features |-> FALSE, flags |-> NoFlags],
      [bpm |-> FALSE, features |-> TRUE, flags |-> NoFlags],
      [bpm |-> TRUE, features |-> FALSE,
       flags |-> Flags(FALSE, FALSE, FALSE, FALSE, TRUE)],
      [bpm |-> FALSE, features |-> FALSE,
       flags |-> Flags(TRUE, TRUE, FALSE, FALSE, FALSE)],
      [bpm |-> FALSE, features |-> FALSE,
       flags |-> Flags(TRUE, FALSE, FALSE, FALSE, FALSE)] }

\* cli.py handle_analyze(args)
AnalyzeItems(folder, a) ==
    (IF a.bpm THEN DiscoverItems(folder) ELSE <<>>)
    \o (IF a.features \/ a.flags.mfcc \/ a.flags.chroma
           \/ a.flags.spectrogram \/ a.flags.save_db
        THEN ItemsOf("audio_file_checker", GlobAudio(Globbable(folder)),
                     a.flags, <<>>)
        ELSE <<>>)

CallAnalyze ==
    /\ Ready
    /\ \E folder \in Folders, a \in AnalyzeArgs :
         Start(IF folder.stat = "missing"
               THEN Ended("handle_analyze", folder, "done", "none")
               ELSE Started("handle_analyze", folder,
                            AnalyzeItems(folder, a)))
    /\ UNCHANGED <<db, conns, dbc, csvfile, log, shown, saved, out, afc, calls>>

\* the target format drawn for "convert --format": its default
FormatChoices == { <<"w", "a", "v">> }

\* cli.py handle_convert(args): output_path.mkdir(exist_ok=True) raises
\* when the directory cannot be created
CallConvert ==
    /\ Ready
    /\ \E folder \in ConvertFolders, fmt \in FormatChoices,
          mkdirOk \in BOOLEAN :
         /\ (out.exists => mkdirOk)
         /\ IF folder.stat = "missing"
            THEN /\ Start(Ended("handle_convert", folder, "done", "none"))
                 /\ out' = out
            ELSE IF ~mkdirOk
            THEN /\ Start(Ended("handle_convert", folder, "crashed",
                                "PermissionError"))
                 /\ out' = out
            ELSE /\ Start(Started("handle_convert", folder,
                                  ItemsOf("convert_audio",
                                          GlobAudio(Globbable(folder)),
                                          NoFlags, fmt)))
                 /\ out' = [out EXCEPT !.exists = TRUE]
    /\ UNCHANGED <<db, conns, dbc, csvfile, log, shown, saved, afc, calls>>

\* the options of "batch": --recursive, --bpm, --save-db
BatchArgs == [recursive : BOOLEAN, bpm : BOOLEAN, save_db : BOOLEAN]

\* the audio_files list of handle_batch
BatchFiles(folder, recursive, foldCase) ==
    IF recursive THEN RGlobAudio(Globbable(folder), foldCase)
    ELSE GlobAudio(folder.entries)

\* the body of the batch loop for one file
BatchPass(f, a) ==
    (IF a.bpm THEN <<Item("calculate_bpm", f, NoFlags, <<>>)>> ELSE <<>>)
    \o (IF a.save_db
        THEN <<Item("audio_file_checker", f,
                    [NoFlags EXCEPT !.save_db = TRUE], <<>>)>>
        ELSE <<>>)

BatchItems(files, a) ==
    Flatten([i \in 1..Len(files) |-> BatchPass(files[i], a)])

\* cli.py handle_batch(args): iterdir() raises on a path that is no
\* directory or may not be listed; with --save-db the loop starts after
\* setup_database()
CallBatch ==
    /\ Ready
    /\ \E folder \in Folders, a \in BatchArgs, foldCase \in BOOLEAN :
         /\ (~a.recursive => ~foldCase)
         /\ LET items == BatchItems(BatchFiles(folder, a.recursive, foldCase),
                                    a)
                given(r) == [r EXCEPT !.args = a]
            IN  IF folder.stat = "missing"
                THEN /\ Start(given(Ended("handle_batch", folder, "done",
                                          "none")))
                     /\ dbc' = dbc
                ELSE IF ~a.recursive /\ ListdirError(folder) # "none"
                THEN /\ Start(given(Ended("handle_batch", folder, "crashed",
                                          ListdirError(folder))))
                     /\ dbc' = dbc
                ELSE IF a.save_db
                THEN /\ Start([given(Started("handle_batch", folder, items))
                                  EXCEPT !.pc = "setup"])
                     /\ dbc' = Enter("setup_database", NoArgs, "run", TRUE)
                ELSE /\ Start(given(Started("handle_batch", folder, items)))
                     /\ dbc' = dbc
    /\ UNCHANGED <<db, conns, csvfile, log, shown, saved, out, afc, calls>>

\* setup_database() has returned to handle_batch
RunSetup ==
    /\ run.handler = "handle_batch"
    /\ run.pc = "setup"
    /\ dbc.pc = "returned"
    /\ dbc.caller = "run"
    /\ dbc' = IdleCall
    /\ run' = [Through(run, "run") EXCEPT !.pc = "loop"]
    /\ UNCHANGED <<db, conns, csvfile, log, shown, saved, out, afc, calls, ret>>

\* the except clauses of analyzers/bpm.py discover_audio_files
DiscoverHandlers == {"PermissionError", "OSError", "ValueError", "TypeError"}

\* the pass runs inside discover_audio_files, called directly or by
\* handle_analyze
InDiscovery(r, op) ==
    /\ r.handler \in {"discover_audio_files", "handle_analyze"}
    /\ op = "calculate_bpm"

\* the index of the first item after the items of discover_audio_files
AfterDiscovery(r) ==
    1 + Cardinality({k \in 1..Len(r.items) :
                        r.items[k].op = "calculate_bpm"})

\* the loop after one pass: on to the next item; or an exception leaves
\* the operation, which discover_audio_files may catch (it then returns
\* no results) and which otherwise leaves the handler
AfterPass(r, ev, pair) ==
    IF ev.raised = "none"
    THEN [r EXCEPT !.i = @ + 1, !.results = @ \o pair]
    ELSE IF InDiscovery(r, ev.op) /\ Catches(DiscoverHandlers, ev.raised)
    THEN [r EXCEPT !.i = AfterDiscovery(r), !.results = <<>>]
    ELSE [r EXCEPT !.pc = "crashed", !.raised = ev.raised]

\* the pair a discovery collects: "if bpm: bpm_results.append(...)"
Collected(r, f, value) ==
    IF r.handler \in {"discover_audio_files", "hsbpm.discover_audio_files",
                      "handle_analyze"}
       /\ Truthy(value)
    THEN << <<PathName(f.path), value.v>> >>
    ELSE <<>>

\* an exception leaves the handler: the value the caller sees
Leave(r) ==
    /\ run' = r
    /\ ret' = IF r.pc = "crashed" THEN Return(r) ELSE ret

\* one pass of a loop over calculate_bpm
RunBpm ==
    /\ run.pc = "loop"
    /\ run.i <= Len(run.items)
    /\ run.items[run.i].op \in {"calculate_bpm", "hsbpm.calculate_bpm"}
    /\ LET it == run.items[run.i]
       IN  \E e \in ErrorsIn(it.file) :
             LET r == IF it.op = "calculate_bpm"
                      THEN calculate_bpm(it.file, e)
                      ELSE hsbpm_calculate_bpm(it.file, e)
                 ev == Event(it.op, it.file, r)
             IN  /\ calls' = Append(calls, ev)
                 /\ Leave(AfterPass(run, ev,
                                    Collected(run, it.file, r.value)))
    /\ UNCHANGED <<db, conns, dbc, csvfile, log, shown, saved, out, afc>>

\* one pass of the loop of handle_convert
RunConvert ==
    /\ run.pc = "loop"
    /\ run.i <= Len(run.items)
    /\ run.items[run.i].op = "convert_audio"
    /\ LET it == run.items[run.i]
       IN  \E env \in ConvertEnvs(it.file) :
             LET r == convert_audio(it.file, "converted_audio", it.fmt, out,
                                    env)
                 ev == ConvertEvent(<<it.file, "converted_audio", it.fmt>>,
                                   out, r)
             IN  /\ calls' = Append(calls, ev)
                 /\ out' = r.out
                 /\ Leave(AfterPass(run, ev, <<>>))
    /\ UNCHANGED <<db, conns, dbc, csvfile, log, shown, saved, afc>>

\* one pass of a loop over audio_file_checker: the call starts
RunChecker ==
    /\ run.pc = "loop"
    /\ run.i <= Len(run.items)
    /\ run.items[run.i].op = "audio_file_checker"
    /\ afc.pc = "idle"
    /\ LET it == run.items[run.i]
       IN  \E mkdirOk \in BOOLEAN :
           \E e \in ErrorsIn(it.file) :
               CheckerBegin(it.file, it.flags, e, mkdirOk, "run")
    /\ UNCHANGED <<db, conns, csvfile, log, shown, saved, out, run, calls, ret>>

\* ... and has returned to the loop
RunChecked ==
    /\ run.pc = "loop"
    /\ afc.pc = "returned"
    /\ afc.caller = "run"
    /\ LET ev == Event("audio_file_checker", afc.file, afc)
       IN  /\ calls' = Append(calls, ev)
           /\ Leave(AfterPass(run, ev, <<>>))
    /\ afc' = IdleChecker
    /\ UNCHANGED <<db, conns, dbc, csvfile, log, shown, saved, out>>

\* the loop is over: the handler returns
RunReturn ==
    /\ run.pc = "loop"
    /\ run.i > Len(run.items)
    /\ run' = [run EXCEPT !.pc = "done"]
    /\ ret' = Return(run)
    /\ UNCHANGED <<db, conns, dbc, csvfile, log, shown, saved, out, afc, calls>>

-----------------------------------------------------------------------------
(* The BPM log: csv_writing of analyzers/bpm.py and of bpm_analyser.py,  *)
(* writing arg.log = logs/bpm.csv.  A row of the file is the tuple of its *)
(* fields.                                                                *)

BpmHeader == <<"filename", "bpm">>

\* result lists passed to csv_writing directly
BpmResults ==
    { <<>>,
      << <<N_a_wav, 120>> >>,
      << <<N_b_MP3, 90>>, <<N_a_wav, 120>> >> }

\* the environment of one csv_writing: whether logs/ can be created, how
\* open(arg.log, "w") ends and how the writes to the opened file end
CsvEnvs ==
    { env \in [mkdirOk : BOOLEAN,
               opened : {"ok", "PermissionError", "OSError"},
               written : {"ok", "OSError"}] :
        /\ (~env.mkdirOk => env.opened = "ok")
        /\ (env.opened # "ok" => env.written = "ok") }

\* a file opened for appending would keep what it held
Appended(l, results, env) ==
    [dir |-> TRUE, exists |-> TRUE,
     rows |-> l.rows \o <<BpmHeader>> \o results]

\* writer.writerow(header); writer.writerows(results_list) on a file
\* opened with "w": the whole content, or the header alone when a write
\* fails
Written(l, results, env) ==
    [dir |-> TRUE, exists |-> TRUE,
     rows |-> IF env.written = "ok" THEN <<BpmHeader>> \o results
              ELSE <<BpmHeader>>]

\* with this in place of the check, an empty list is written as well
NeverSkips(results) == FALSE

\* csv_writing: "if not results_list"
SkipsEmpty(results) == results = <<>>

\* analyzers/bpm.py csv_writing(arg, results_list): the value returned and
\* the log afterwards
csv_writing(l, results, env) ==
    LET made == [l EXCEPT !.dir = TRUE]
        end(value, file) ==
            [value |-> Bool(value), raised |-> "none", log |-> file]
    IN  IF SkipsEmpty(results) THEN end(FALSE, l)
        ELSE IF ~l.dir /\ ~env.mkdirOk THEN end(FALSE, l)
        ELSE IF env.opened # "ok" THEN end(FALSE, made)
        ELSE IF env.written # "ok" THEN end(FALSE, Written(l, results, env))
        ELSE end(TRUE, Written(l, results, env))

\* bpm_analyser.py csv_writing(arg, results_list): no check, no except
\* clause and no return statement
hsbpm_csv_writing(l, results, env) ==
    LET end(raised, file) ==
            [value |-> None, raised |-> raised, log |-> file]
    IN  IF ~l.dir THEN end("FileNotFoundError", l)
        ELSE IF env.opened # "ok" THEN end(env.opened, l)
        ELSE IF env.written # "ok"
        THEN end(env.written, Written(l, results, env))
        ELSE end("none", Written(l, results, env))

\* one call of a csv_writing: its arguments, its environment, the log
\* before it and how it ended
CsvEvent(op, results, env, before, r) ==
    [op |-> op, file |-> NoFile, value |-> r.value, raised |-> r.raised,
     decoder |-> FALSE, results |-> results, env |-> env, before |-> before]

CallCsvWriting ==
    /\ Ready
    /\ \E results \in BpmResults, env \in CsvEnvs :
         LET r == csv_writing(log, results, env)
         IN  /\ log' = r.log
             /\ calls' = <<CsvEvent("csv_writing", results, env, log, r)>>
             /\ ret' = [op |-> "csv_writing", value |-> r.value,
                        raised |-> r.raised]
    /\ UNCHANGED <<db, conns, dbc, csvfile, shown, saved, out, afc, run>>

CallHsbpmCsvWriting ==
    /\ Ready
    /\ \E results \in BpmResults, env \in CsvEnvs :
         LET r == hsbpm_csv_writing(log, results, env)
         IN  /\ log' = r.log
             /\ calls' = <<CsvEvent("hsbpm.csv_writing", results, env, log,
                                    r)>>
             /\ ret' = [op |-> "hsbpm.csv_writing", value |-> r.value,
                        raised |-> r.raised]
    /\ UNCHANGED <<db, conns, dbc, csvfile, shown, saved, out, afc, run>>

\* "analyze --bpm --log logs/bpm.csv", with and without --save-db
AnalyzeLogArgs ==
    { [bpm |-> TRUE, features |-> FALSE, flags |-> NoFlags,
       log |-> Str("logs/bpm.csv")],
      [bpm |-> TRUE, features |-> FALSE,
       flags |-> Flags(FALSE, FALSE, FALSE, FALSE, TRUE),
       log |-> Str("logs/bpm.csv")] }

\* cli.py handle_analyze(args) with --log: csv_writing(args, results)
\* follows the discovery
AnalyzeLogItems(folder, a) ==
    DiscoverItems(folder)
    \o (IF Truthy(a.log)
        THEN <<Item("csv_writing", NoFile, NoFlags, <<>>)>>
        ELSE <<>>)
    \o (IF a.features \/ a.flags.mfcc \/ a.flags.chroma
           \/ a.flags.spectrogram \/ a.flags.save_db
        THEN ItemsOf("audio_file_checker", GlobAudio(Globbable(folder)),
                     a.flags, <<>>)
        ELSE <<>>)

CallAnalyzeLog ==
    /\ Ready
    /\ \E folder \in Folders, a \in AnalyzeLogArgs :
         Start(IF folder.stat = "missing"
               THEN Ended("handle_analyze", folder, "done", "none")
               ELSE [Started("handle_analyze", folder,
                             AnalyzeLogItems(folder, a))
                        EXCEPT !.args = a])
    /\ UNCHANGED <<db, conns, dbc, csvfile, log, shown, saved, out, afc,
                   calls>>

\* handle_analyze: csv_writing(args, results)
RunLog ==
    /\ run.pc = "loop"
    /\ run.i <= Len(run.items)
    /\ run.items[run.i].op = "csv_writing"
    /\ \E env \in CsvEnvs :
         LET r == csv_writing(log, run.results, env)
             ev == CsvEvent("csv_writing", run.results, env, log, r)
         IN  /\ log' = r.log
             /\ calls' = Append(calls, ev)
             /\ Leave(AfterPass(run, ev, <<>>))
    /\ UNCHANGED <<db, conns, dbc, csvfile, shown, saved, out, afc>>

-----------------------------------------------------------------------------
(* The db subcommand.  pc: idle -> setup -> (op ->) done *)

\* the command lines the parser accepts for "db": exactly one of --view,
\* --export-csv FILE and --filter-loops, FILE being any string
DbCommandArgs ==
    { [view |-> TRUE, export_csv |-> None, filter_loops |-> FALSE],
      [view |-> FALSE, export_csv |-> None, filter_loops |-> TRUE] }
    \cup { [view |-> FALSE, export_csv |-> Str(f), filter_loops |-> FALSE] :
               f \in OutputFiles }

\* cli.py handle_database(args): setup_database() first
CallDatabase ==
    /\ Ready
    /\ \E a \in DbCommandArgs :
         run' = [IdleRun EXCEPT !.handler = "handle_database",
                                !.pc = "setup", !.args = a]
    /\ dbc' = Enter("setup_database", NoArgs, "run", TRUE)
    /\ UNCHANGED <<db, conns, csvfile, log, shown, saved, out, afc, calls,
                   ret>>

\* the if/elif chain of handle_database: the call it makes, if any
SelectedOp(a) ==
    IF a.view THEN DbOp("view_database", NoArgs)
    ELSE IF Truthy(a.export_csv)
    THEN DbOp("export_to_csv", [NoArgs EXCEPT !.output_file = a.export_csv.s])
    ELSE IF a.filter_loops
    THEN DbOp("filter_loops",
              [NoArgs EXCEPT !.min_duration = Num(DEFAULT_MIN_DURATION)])
    ELSE DbOp("none", NoArgs)

\* setup_database() has returned to handle_database
RunDatabase ==
    /\ run.handler = "handle_database"
    /\ run.pc = "setup"
    /\ dbc.pc = "returned"
    /\ dbc.caller = "run"
    /\ LET sel == SelectedOp(run.args)
           ops == Append(run.ops, DbOp(dbc.op, dbc.args))
       IN  IF sel.op = "none"
           THEN /\ run' = [run EXCEPT !.pc = "done", !.ops = ops]
                /\ dbc' = IdleCall
                /\ ret' = [op |-> "handle_database", value |-> None,
                           raised |-> "none"]
           ELSE /\ run' = [run EXCEPT !.pc = "op", !.ops = ops]
                /\ \E mkdirOk \in BOOLEAN :
                     /\ (sel.op # "export_to_csv" => mkdirOk)
                     /\ dbc' = Enter(sel.op, sel.args, "run", mkdirOk)
                /\ ret' = ret
    /\ UNCHANGED <<db, conns, csvfile, log, shown, saved, out, afc, calls>>

\* the selected function has returned: the handler returns
RunDatabaseDone ==
    /\ run.handler = "handle_database"
    /\ run.pc = "op"
    /\ dbc.pc = "returned"
    /\ dbc.caller = "run"
    /\ run' = [run EXCEPT !.pc = "done",
                          !.ops = Append(@, DbOp(dbc.op, dbc.args))]
    /\ dbc' = IdleCall
    /\ ret' = [op |-> "handle_database", value |-> None, raised |-> "none"]
    /\ UNCHANGED <<db, conns, csvfile, log, shown, saved, out, afc, calls>>

-----------------------------------------------------------------------------
(* The hscheck script, main.py: its own setup_database, save_to_database  *)
(* and audio_file_checker, none of which catches what sqlite3.connect or *)
(* librosa.load raises.                                                  *)

\* filename.lower().endswith((".wav", ".mp3"))
HscheckExtensions == << <<".", "w", "a", "v">>, <<".", "m", "p", "3">> >>

\* the files of the loop of main()
HscheckFiles(folder) ==
    IF ListdirError(folder) # "none" THEN <<>>
    ELSE SelectSeq(folder.entries,
                   LAMBDA f : EndsWithAny(Lower(PathName(f.path)),
                                          HscheckExtensions))

\* a main() that would go to its loop without setup_database()
HscheckNoSetup(folder, flags) ==
    ItemsOf("hscheck.audio_file_checker", HscheckFiles(folder), flags, <<>>)

\* main(): setup_database() first, then audio_file_checker for each file
HscheckItems(folder, flags) ==
    <<Item("hscheck.setup_database", NoFile, NoFlags, <<>>)>>
    \o ItemsOf("hscheck.audio_file_checker", HscheckFiles(folder), flags,
               <<>>)

\* main.py main() on a folder, with or without --save-db
CallHscheck ==
    /\ Ready
    /\ \E folder \in Folders, save_db \in BOOLEAN :
         Start(Started("hscheck.main", folder,
                       HscheckItems(folder,
                                    [NoFlags EXCEPT !.save_db = save_db])))
    /\ UNCHANGED <<db, conns, dbc, csvfile, log, shown, saved, out, afc, calls>>

\* main.py setup_database(): an error of sqlite3 ends the script; after
\* it, os.listdir(folder_path) raises on a folder that cannot be listed
RunHscheckSetup ==
    /\ run.pc = "loop"
    /\ run.i <= Len(run.items)
    /\ run.items[run.i].op = "hscheck.setup_database"
    /\ \E ok \in BOOLEAN :
         LET e == IF ~ok THEN "sqlite3.Error" ELSE ListdirError(run.folder)
             r == [run EXCEPT
                      !.ops = IF ok
                              THEN Append(@, DbOp("hscheck.setup_database",
                                                  NoArgs))
                              ELSE @]
         IN  /\ db' = IF ok THEN CreateTableIfNotExists(db) ELSE db
             /\ Leave(IF e = "none" THEN [r EXCEPT !.i = @ + 1]
                      ELSE [r EXCEPT !.pc = "crashed", !.raised = e])
    /\ UNCHANGED <<conns, dbc, csvfile, log, shown, saved, out, afc, calls>>

\* main.py audio_file_checker(file_path, save_db=...): the load, the
\* output directory and save_to_database(file_path, sr, duration), which
\* checks no argument, connects outside its try block and catches
\* sqlite3.DatabaseError around the INSERT.  The result: the exception that
\* leaves it, whether save_to_database was called, and the table
hscheck_audio_file_checker(d, f, flags, e, env) ==
    LET o == Load(f, e)
        end(raised, called, table) ==
            [value |-> None, raised |-> raised, decoder |-> TRUE,
             called |-> called, db |-> table]
    IN  IF o \notin {"ok", "empty"} THEN end(o, FALSE, d)
        ELSE IF ~env.mkdirOk THEN end("PermissionError", FALSE, d)
        ELSE IF ~flags.save_db THEN end("none", FALSE, d)
        ELSE IF ~env.connOk THEN end("sqlite3.Error", TRUE, d)
        ELSE IF ~env.insertOk \/ ~d.exists THEN end("none", TRUE, d)
        ELSE end("none", TRUE,
                 InsertOrReplace(d, PathName(f.path), IntOfHalves(f.sr),
                                 RoundDuration(f.dur)))

\* one pass of the loop of main()
RunHscheck ==
    /\ run.pc = "loop"
    /\ run.i <= Len(run.items)
    /\ run.items[run.i].op = "hscheck.audio_file_checker"
    /\ LET it == run.items[run.i]
       IN  \E e \in ErrorsIn(it.file) :
           \E env \in [mkdirOk : BOOLEAN, connOk : BOOLEAN,
                       insertOk : BOOLEAN] :
             /\ (~it.flags.save_db => env.connOk /\ env.insertOk)
             /\ LET r == hscheck_audio_file_checker(db, it.file, it.flags,
                                                    e, env)
                     ev == Event(it.op, it.file, r)
                     through ==
                         [run EXCEPT
                             !.ops = IF r.called
                                     THEN Append(@,
                                              DbOp("hscheck.save_to_database",
                                                   NoArgs))
                                     ELSE @]
                 IN  /\ db' = r.db
                     /\ calls' = Append(calls, ev)
                     /\ Leave(AfterPass(through, ev, <<>>))
    /\ UNCHANGED <<conns, dbc, csvfile, log, shown, saved, out, afc>>

-----------------------------------------------------------------------------
Init ==
    /\ db = [exists |-> FALSE, rows |-> <<>>, seq |-> 0]
    /\ conns = 0
    /\ dbc = IdleCall
    /\ csvfile = [exists |-> FALSE, rows |-> <<>>]
    /\ shown = NoShown
    /\ saved = <<>>
    /\ out = [exists |-> FALSE, files |-> {}, empty |-> {}]
    /\ log = NoLog
    /\ afc = IdleChecker
    /\ run = IdleRun
    /\ calls = <<>>
    /\ ret = NoRet

NextDb ==
    \/ CallSetup
    \/ CallSave
    \/ CallExport
    \/ CallView
    \/ CallFilter
    \/ DbConnect
    \/ DbBody
    \/ DbFinally
    \/ ApiReturn
    \/ CallDatabase
    \/ RunDatabase
    \/ RunDatabaseDone
    \/ Forget

NextFiles ==
    \/ CallCalculateBpm
    \/ CallConvertAudio
    \/ CallAudioFileChecker
    \/ CheckerSave
    \/ CheckerSaved
    \/ CheckerFeatures
    \/ CheckerReturn
    \/ DbConnect
    \/ DbBody
    \/ DbFinally
    \/ Forget

NextCli ==
    \/ CallDiscover
    \/ CallHsbpmDiscover
    \/ CallAnalyze
    \/ CallConvert
    \/ CallBatch
    \/ RunSetup
    \/ RunBpm
    \/ RunConvert
    \/ RunChecker
    \/ RunChecked
    \/ RunReturn
    \/ CheckerSave
    \/ CheckerSaved
    \/ CheckerFeatures
    \/ DbConnect
    \/ DbBody
    \/ DbFinally
    \/ Forget

\* the commands that may save records, and what they run
NextSave ==
    \/ CallAnalyze
    \/ CallBatch
    \/ CallHscheck
    \/ RunSetup
    \/ RunBpm
    \/ RunChecker
    \/ RunChecked
    \/ RunHscheckSetup
    \/ RunHscheck
    \/ RunReturn
    \/ CheckerSave
    \/ CheckerSaved
    \/ CheckerFeatures
    \/ DbConnect
    \/ DbBody
    \/ DbFinally
    \/ Forget

NextLog ==
    \/ CallCsvWriting
    \/ CallHsbpmCsvWriting
    \/ CallAnalyzeLog
    \/ CallDiscover
    \/ CallHsbpmDiscover
    \/ RunBpm
    \/ RunLog
    \/ RunChecker
    \/ RunChecked
    \/ RunReturn
    \/ CheckerSave
    \/ CheckerSaved
    \/ CheckerFeatures
    \/ DbConnect
    \/ DbBody
    \/ DbFinally
    \/ Forget

Next == NextDb \/ NextFiles \/ NextCli \/ NextLog \/ NextSave

SpecLog == Init /\ [][NextLog]_vars

SpecSave == Init /\ [][NextSave]_vars

SpecCli == Init /\ [][NextCli]_vars

SpecFiles == Init /\ [][NextFiles]_vars

SpecDb == Init /\ [][NextDb]_vars

Spec == Init /\ [][Next]_vars

-----------------------------------------------------------------------------
(* Claims about the database layer *)

\* C1 (as stated): the audio_files table holds at most one record per
\* file_name.
C1_OneRecordPerFileName ==
    \A i, j \in 1..Len(db.rows) :
        db.rows[i].file_name = db.rows[j].file_name => i = j

\* C2 (as stated): every record of the table has sample_rate > 0 and
\* duration_seconds > 0.
C2_PositiveFields ==
    \A i \in 1..Len(db.rows) :
        db.rows[i].sample_rate > 0 /\ db.rows[i].duration_seconds > 0

\* a view_database or an export_to_csv has just succeeded, and the rows it
\* read
ReadBack ==
    IF shown.op = "view_database" THEN shown.rows
    ELSE Tail(csvfile.rows)

JustRead ==
    \/ shown.op = "view_database"
    \/ /\ dbc.op = "export_to_csv"
       /\ dbc.pc \in {"finally", "returned"}
       /\ dbc.ret
    \/ ret.op = "export_to_csv" /\ ret.value = Bool(TRUE)

\* a row read back carries exactly the values passed to the save
SameAsPassed(row, a) ==
    /\ row[1] = a.path[Len(a.path)]
    /\ 2 * row[2] = a.sample_rate.v
    /\ 32 * row[3] = DurationScale * a.duration.v

\* a row read back carries the final path component, the whole part of
\* the sample rate and the duration rounded to the stored precision
SameAsStored(row, a) ==
    /\ row[1] = a.path[Len(a.path)]
    /\ 2 * row[2] <= a.sample_rate.v /\ a.sample_rate.v < 2 * row[2] + 2
    /\ 32 * row[3] - DurationScale * a.duration.v \in -16..16

\* the last successful save of each file name
IsLatest(j) ==
    \A k \in (j + 1)..Len(saved) :
        saved[k].path[Len(saved[k].path)] # saved[j].path[Len(saved[j].path)]

\* C3 (as stated): the rows a view or an export reads after successful
\* saves are exactly the inserted rows, each equal to the file name, the
\* sample rate and the duration passed to the insert.
C3_RoundTripExact ==
    JustRead =>
        /\ \A i \in 1..Len(ReadBack) :
               \E j \in 1..Len(saved) : SameAsPassed(ReadBack[i], saved[j])
        /\ \A j \in 1..Len(saved) :
               IsLatest(j) =>
                   \E i \in 1..Len(ReadBack) :
                       SameAsPassed(ReadBack[i], saved[j])

\* C3 (amended): every row a successful view or export reads is the row of
\* a successful save: the final component of its path, the whole part of
\* its sample rate and its duration rounded to one decimal place; and the
\* last successful save of every file name is among the rows read.
C3_RoundTripStored ==
    JustRead =>
        /\ \A i \in 1..Len(ReadBack) :
               \E j \in 1..Len(saved) : SameAsStored(ReadBack[i], saved[j])
        /\ \A j \in 1..Len(saved) :
               IsLatest(j) =>
                   \E i \in 1..Len(ReadBack) :
                       SameAsStored(ReadBack[i], saved[j])

\* an export has succeeded after a save whose sample rate and duration
\* were not stored as passed
C3_Witness ==
    /\ ret.op = "export_to_csv" /\ ret.value = Bool(TRUE)
    /\ Len(saved) >= 2
    /\ \E j \in 1..Len(saved) :
           saved[j].sample_rate.v = 3 /\ saved[j].duration.v = 9

\* C9: the rows of the table change only during save_to_database, and no
\* step of any operation removes or alters a row that is in the table.
C9_RecordLifecycle ==
    [][/\ \A i \in 1..Len(db.rows) :
            \E j \in 1..Len(db.rows') : db.rows'[j] = db.rows[i]
       /\ (db.rows' # db.rows => dbc.op = "save_to_database")]_vars

\* setup_database has succeeded on a table that holds records
C9_Witness ==
    /\ ret.op = "setup_database" /\ ret.value = Bool(TRUE)
    /\ Len(db.rows) > 0

\* C10: at most one connection is ever open, and none is open once a
\* database function has returned or while none is running.
C10_ConnectionPerCall ==
    /\ conns <= 1
    /\ (dbc.pc \in {"idle", "returned"} => conns = 0)
    /\ (conns = 1 => dbc.hasConn)

\* save_to_database has returned False after it had opened a connection
C10_Witness ==
    /\ dbc.op = "save_to_database"
    /\ dbc.pc = "returned"
    /\ dbc.hasConn
    /\ ~dbc.ret
-----------------------------------------------------------------------------
(* Claims about the per-file operations *)

PerFileOps == {"calculate_bpm", "audio_file_checker", "convert_audio"}

\* C4 (as stated): no call of calculate_bpm, audio_file_checker or
\* convert_audio ends with an exception leaving the operation, whatever
\* fails inside it.
C4_NeverRaises ==
    \A i \in 1..Len(calls) :
        calls[i].op \in PerFileOps => calls[i].raised = "none"

\* C6 (as stated): librosa.load is invoked only on a path that exists as a
\* file, may be read and has an audio extension.
C6_ChecksBeforeDecoder ==
    \A i \in 1..Len(calls) :
        (calls[i].op \in PerFileOps /\ calls[i].decoder) =>
            /\ calls[i].file.stat = "file"
            /\ calls[i].file.readable
            /\ EndsWithAny(Lower(PathName(calls[i].file.path)),
                           AUDIO_EXTENSIONS)

-----------------------------------------------------------------------------
(* Claims about discovery and the loops of the handlers *)

Handlers == {"handle_analyze", "handle_convert", "handle_batch"}

Over(r) == r.pc \in {"done", "crashed"}

\* the calls made are the passes of the loop, each file once and in order
EachOnceInOrder(r) ==
    /\ Len(calls) = Len(r.items)
    /\ \A i \in 1..Len(r.items) :
           calls[i].op = r.items[i].op /\ calls[i].file = r.items[i].file

\* the handler has discovered its files and entered its loop
InLoop(r) == r.i >= 1

\* C5 (as stated): when a handler that entered its loop is over, every
\* discovered file has been processed exactly once and in order, whatever
\* failed on the files before it, and the handler has returned.
C5_EveryFileOnce ==
    (run.handler \in Handlers /\ InLoop(run) /\ Over(run)) =>
        EachOnceInOrder(run) /\ run.pc = "done"

\* the name ends, case-insensitively, in .mp3, .wav, .flac or .ogg
AudioName(name) == EndsWithAny(Lower(name), AUDIO_EXTENSIONS)

\* C7: whatever a discovery or a handler passes to calculate_bpm,
\* audio_file_checker or convert_audio, and whatever appears in a result,
\* has a name that ends case-insensitively in .mp3, .wav, .flac or .ogg.
C7_OnlyAudioNames ==
    /\ \A i \in 1..Len(calls) : AudioName(PathName(calls[i].file.path))
    /\ \A k \in 1..Len(run.results) : AudioName(run.results[k][1])
    /\ (afc.pc # "idle" => AudioName(PathName(afc.file.path)))

\* the folder holds the named entry
Holds(folder, f) == \E k \in 1..Len(folder.entries) : folder.entries[k] = f

\* a handler has finished over a folder that holds c.txt, after a pass
\* over another file
C7_Witness ==
    /\ run.handler \in Handlers
    /\ run.pc = "done"
    /\ Holds(run.folder, F_c)
    /\ Len(calls) > 0

\* the folder of a discovery is missing, no directory, unreadable or
\* without a supported audio file
NothingToDiscover(folder) ==
    \/ folder.stat # "dir"
    \/ ~folder.readable
    \/ ListAudio(folder.entries) = <<>>

\* C8 (as stated): on such a folder both discover_audio_files return an
\* empty list, without raising and without a call of calculate_bpm.
C8_EmptyResult ==
    (/\ run.handler \in {"discover_audio_files",
                         "hsbpm.discover_audio_files"}
     /\ Over(run)
     /\ NothingToDiscover(run.folder)) =>
        /\ run.pc = "done"
        /\ run.raised = "none"
        /\ run.results = <<>>
        /\ calls = <<>>
-----------------------------------------------------------------------------
(* Claims about the commands of the unified CLI *)

\* the database function the flag of the command line names
NamedOp(a) ==
    IF a.view THEN DbOp("view_database", NoArgs)
    ELSE IF a.export_csv # None
    THEN DbOp("export_to_csv", [NoArgs EXCEPT !.output_file = a.export_csv.s])
    ELSE DbOp("filter_loops",
              [NoArgs EXCEPT !.min_duration = Num(DEFAULT_MIN_DURATION)])

\* C13 (as stated): every accepted db command calls setup_database and
\* then exactly the one database function its flag names, export_to_csv
\* with the file name given, whatever that name is.
C13_OneOperation ==
    (run.handler = "handle_database" /\ run.pc = "done") =>
        run.ops = <<DbOp("setup_database", NoArgs), NamedOp(run.args)>>

\* C12 (as stated): a handler that main has started runs to its end, and
\* main goes on to its final "Done" step, whatever fails in between.
C12_ReachesDone ==
    (run.handler \in Handlers \cup {"handle_database"} /\ Over(run)) =>
        run.pc = "done"
-----------------------------------------------------------------------------
(* Claims about BPM results and the BPM log *)

CsvOps == {"csv_writing", "hsbpm.csv_writing"}

\* the row save_to_database stores for the file audio_file_checker holds
RowOfFile(id, f) ==
    Row(id, PathName(f.path), IntOfHalves(f.sr), RoundDuration(f.dur))

CsvCall(i) ==
    /\ calls[i].op \in CsvOps
    /\ calls[i].results # <<>>

\* the file holds the header and then the results, and nothing else
HoldsExactly(results) ==
    /\ log.exists
    /\ log.rows = <<BpmHeader>> \o results

\* C14 (as stated): after a csv_writing with a non-empty result list the
\* file holds the header and one row per result, in order, and nothing
\* else, and the call has returned True.
C14_WritesAndReturnsTrue ==
    \A i \in 1..Len(calls) :
        CsvCall(i) =>
            HoldsExactly(calls[i].results) /\ calls[i].value = Bool(TRUE)

\* the directory of the log is there or can be made, and the file can be
\* opened and written
Writable(ev) ==
    /\ IF ev.op = "csv_writing" THEN ev.before.dir \/ ev.env.mkdirOk
       ELSE ev.before.dir
    /\ ev.env.opened = "ok"
    /\ ev.env.written = "ok"

\* C14 (amended): a csv_writing with a non-empty result list that can
\* write its file leaves it holding the header and one row per result, in
\* order, and nothing else; the version of analyzers/bpm.py then returns
\* True and the one of bpm_analyser.py returns None.  One that cannot
\* returns False (analyzers/bpm.py) or raises (bpm_analyser.py).
C14_WritesWhenWritable ==
    \A i \in 1..Len(calls) :
        CsvCall(i) =>
            IF Writable(calls[i])
            THEN /\ HoldsExactly(calls[i].results)
                 /\ calls[i].raised = "none"
                 /\ calls[i].value = IF calls[i].op = "csv_writing"
                                     THEN Bool(TRUE) ELSE None
            ELSE IF calls[i].op = "csv_writing"
                 THEN calls[i].value = Bool(FALSE) /\ calls[i].raised = "none"
                 ELSE calls[i].raised # "none"

\* a csv_writing of two results has replaced a log that held other rows
C14_Witness ==
    /\ Len(calls) = 1
    /\ CsvCall(1)
    /\ Len(calls[1].results) = 2
    /\ calls[1].before.exists
    /\ calls[1].before.rows # log.rows
    /\ HoldsExactly(calls[1].results)

\* the tempo is inside the sanity range
InRange(bpm) == MIN_BPM < bpm /\ bpm <= MAX_BPM

\* C18 (as stated): every pair a discovery has collected, and every row of
\* the BPM log, has a tempo inside the sanity range.
C18_TempoInRange ==
    /\ \A k \in 1..Len(run.results) : InRange(run.results[k][2])
    /\ \A k \in 2..Len(log.rows) : InRange(log.rows[k][2])

Discoveries == {"discover_audio_files", "hsbpm.discover_audio_files"}

\* the pairs of the calls of calculate_bpm that returned a value, in order
RECURSIVE PairsOf(_)
PairsOf(cs) ==
    IF Len(cs) = 0 THEN <<>>
    ELSE PairsOf(SubSeq(cs, 1, Len(cs) - 1))
         \o (IF cs[Len(cs)].value # None
             THEN << <<PathName(cs[Len(cs)].file.path),
                       cs[Len(cs)].value.v>> >>
             ELSE <<>>)

\* C19 (as stated): a discovery that has returned returns the pairs of
\* its calls of calculate_bpm that returned a value, in listing order, and
\* no other pair.
C19_PairPerValue ==
    (run.handler \in Discoveries /\ run.pc = "done") =>
        run.results = PairsOf(calls)

\* C20: a csv_writing of analyzers/bpm.py with an empty result list
\* returns False and leaves the log, its directory included, as it was;
\* so does "analyze --bpm --log" that collected no result.
C20_EmptyListLeavesLog ==
    \A i \in 1..Len(calls) :
        (calls[i].op = "csv_writing" /\ calls[i].results = <<>>) =>
            /\ calls[i].value = Bool(FALSE)
            /\ log = calls[i].before

\* "analyze --bpm --log" has found no result on a folder while the log
\* held rows of an earlier command
C20_Witness ==
    /\ run.handler = "handle_analyze"
    /\ run.pc = "done"
    /\ run.results = <<>>
    /\ \E i \in 1..Len(calls) :
           calls[i].op = "csv_writing" /\ calls[i].results = <<>>
    /\ log.exists
    /\ Len(log.rows) > 1
-----------------------------------------------------------------------------
(* Claims about the results of export_to_csv, filter_loops and            *)
(* convert_audio                                                          *)

\* the two sequences hold the same elements the same number of times
SameElements(s, t) ==
    /\ Len(s) = Len(t)
    /\ \A i \in 1..Len(s) :
           Cardinality({k \in 1..Len(s) : s[k] = s[i]})
               = Cardinality({k \in 1..Len(t) : t[k] = s[i]})

\* a database function has returned to its caller
DbReturned(op) == dbc.op = op /\ dbc.pc = "returned"

\* the call passed its argument checks and met no error
Undisturbed ==
    /\ ArgsAccepted(dbc.op, dbc.args)
    /\ dbc.failed = "none"
    /\ db.exists

\* the file holds the header and then every record of the table exactly
\* once, ordered by file_name ascending
ExportedAll ==
    /\ csvfile.exists
    /\ Len(csvfile.rows) > 1
    /\ csvfile.rows[1] = CsvHeader
    /\ SameElements(Tail(csvfile.rows), ColumnsOf(db.rows))
    /\ \A i, j \in 2..Len(csvfile.rows) :
           i < j => ~NameLess(csvfile.rows[j][1], csvfile.rows[i][1])

\* C15: export_to_csv on a non-empty table writes the header followed by
\* exactly one row per record, ordered by file_name ascending, and returns
\* True.
C15_ExportReturnsTrue ==
    (DbReturned("export_to_csv") /\ db.exists /\ Len(db.rows) > 0) =>
        (dbc.ret /\ ExportedAll)

\* C15, amended: an export_to_csv that returns True has written the header
\* and then every record of the table exactly once, ordered by file_name
\* ascending; on a non-empty table it returns True when its file name is
\* not empty and neither the directory, the database nor the file fails.
C15_ExportAllOrdered ==
    DbReturned("export_to_csv") =>
        /\ (dbc.ret => ExportedAll)
        /\ ((Undisturbed /\ Len(db.rows) > 0) => dbc.ret)

\* an export has succeeded on a table whose records were not inserted in
\* the order of their names
C15_Witness ==
    /\ DbReturned("export_to_csv")
    /\ dbc.ret
    /\ Len(db.rows) = 2
    /\ NameLess(db.rows[2].file_name, db.rows[1].file_name)

\* exactly the records strictly longer than min_duration are shown,
\* longest first
ShownLonger ==
    /\ shown.op = "filter_loops"
    /\ SameElements(shown.rows,
                    ColumnsOf(SelectSeq(db.rows,
                        LAMBDA r : r.duration_seconds
                                       > dbc.args.min_duration.v)))
    /\ \A i, j \in 1..Len(shown.rows) :
           i < j => shown.rows[i][3] >= shown.rows[j][3]

\* a rejected call returns False and never connects to the database
RejectedUnqueried == ~dbc.ret /\ ~dbc.hasConn /\ shown = NoShown

\* C17: filter_loops(min_duration) selects exactly the records strictly
\* longer than min_duration, longest first, and returns True also when none
\* matches; a negative or non-numeric min_duration returns False without
\* querying the database.
C17_FilterReturnsTrue ==
    DbReturned("filter_loops") =>
        IF ArgsAccepted(dbc.op, dbc.args)
        THEN dbc.ret /\ ShownLonger
        ELSE RejectedUnqueried

\* C17, amended: a filter_loops that returns True has shown exactly the
\* records strictly longer than min_duration, longest first; it returns
\* True, also when none matches, when the table exists and the database
\* does not fail; a negative or non-numeric min_duration returns False
\* without querying the database.
C17_FilterStrictlyLonger ==
    DbReturned("filter_loops") =>
        IF ArgsAccepted(dbc.op, dbc.args)
        THEN (dbc.ret => ShownLonger) /\ (Undisturbed => dbc.ret)
        ELSE RejectedUnqueried

\* filter_loops(0) has left out a record of duration 0.0 and shown another
C17_Witness ==
    /\ DbReturned("filter_loops")
    /\ dbc.ret
    /\ dbc.args.min_duration = Num(0)
    /\ \E i \in 1..Len(db.rows) : db.rows[i].duration_seconds = 0
    /\ Len(shown.rows) = 1

\* the name without its last extension
WithoutSuffix(name) == SubSeq(name, 1, Len(name) - Len(Suffix(name)))

\* the output file convert_audio is to write
OutputName(ev) ==
    WithoutSuffix(PathName(ev.file.path)) \o <<".">>
        \o Strip(Lower(ev.target_format), ".")

\* C16: a convert_audio that returns True leaves a non-empty file
\* <input stem>.<normalised target format> in the output directory, and
\* one that returns False before it loads the input writes no file.
C16_TrueMeansOutput ==
    \A i \in 1..Len(calls) :
        calls[i].op = "convert_audio" =>
            /\ (calls[i].value = Bool(TRUE) =>
                   /\ out.exists
                   /\ OutputName(calls[i]) \in out.files
                   /\ OutputName(calls[i]) \notin out.empty)
            /\ ((calls[i].value = Bool(FALSE) /\ ~calls[i].decoder) =>
                   /\ out.files = calls[i].before.files
                   /\ out.empty = calls[i].before.empty)

\* convert_audio(d1/a.wav, converted_audio, ".MP3") has returned True
C16_Witness ==
    /\ Len(calls) = 1
    /\ calls[1].op = "convert_audio"
    /\ calls[1].value = Bool(TRUE)
    /\ calls[1].target_format = <<".", "M", "P", "3">>
    /\ <<"a", ".", "m", "p", "3">> \in out.files
-----------------------------------------------------------------------------
(* Claims about audio_file_checker after the load *)

\* an audio_file_checker has come to its end, by a return or by an
\* exception
CheckerEnded == afc.pc = "returned"

\* ... after it loaded the audio and went through the optional steps
WentThroughSteps == CheckerEnded /\ Len(afc.steps) = 4

\* C21: after the load, a failure of the database save, of the plot or of
\* a feature neither stops the remaining steps nor turns the result into
\* None, and each <feature>_calculated flag is True exactly when the feature
\* was requested and its computation succeeded.
C21_StepsIsolated ==
    WentThroughSteps =>
        /\ afc.raised = "none"
        /\ afc.value = Dict(afc.results)
        /\ afc.results.mfcc_calculated
               = (afc.flags.mfcc /\ afc.steps[2] = "ok")
        /\ afc.results.chroma_calculated
               = (afc.flags.chroma /\ afc.steps[3] = "ok")
        /\ afc.results.spectrogram_calculated
               = (afc.flags.spectrogram /\ afc.steps[4] = "ok")

\* the table holds a record of the analysed file with its sample rate and
\* its duration
HoldsAnalysed ==
    \E i \in 1..Len(db.rows) :
        /\ db.rows[i].file_name = PathName(afc.file.path)
        /\ db.rows[i].sample_rate = afc.file.sr
        /\ db.rows[i].duration_seconds = RoundDuration(afc.file.dur)

\* C22: a result whose saved_to_db flag is True means that the table holds
\* a record of that file with the analysed values, and that neither
\* setup_database nor save_to_database returned False.
C22_SavedFlagMeansSaved ==
    (CheckerEnded /\ afc.value # None /\ afc.value.d.saved_to_db) =>
        /\ HoldsAnalysed
        /\ \A i \in 1..Len(afc.reported) : afc.reported[i]

\* C23: an audio_file_checker that returns None has left the table as it
\* was, also with save_db=True.
C23_NoneLeavesTable ==
    (CheckerEnded /\ afc.raised = "none" /\ afc.value = None) =>
        db = afc.before

\* a call with save_db=True has returned None over a table that holds a
\* record
C23_Witness ==
    /\ CheckerEnded
    /\ afc.raised = "none"
    /\ afc.value = None
    /\ afc.flags.save_db
    /\ Len(db.rows) > 0
-----------------------------------------------------------------------------
(* Claims about the arguments of save_to_database *)

\* an empty path, or a sample rate or a duration that is no positive number
Unacceptable(a) ==
    \/ a.path = <<>>
    \/ a.sample_rate.t \notin {"num", "bool"} \/ a.sample_rate.v <= 0
    \/ a.duration.t \notin {"num", "bool"} \/ a.duration.v <= 0

\* the last record of the table is the one the call was to write
WroteRecord(d, a) ==
    /\ Len(d.rows) > 0
    /\ d.rows[Len(d.rows)].file_name = a.path[Len(a.path)]
    /\ d.rows[Len(d.rows)].sample_rate = IntOfHalves(a.sample_rate.v)
    /\ d.rows[Len(d.rows)].duration_seconds = RoundDuration(a.duration.v)

\* C24: save_to_database with an empty path, or with a sample rate or a
\* duration that is no positive number, returns False, opens no connection
\* and leaves the table as it was; with a path that does not exist on disk
\* it is not turned away, and it writes the record when the table exists
\* and the database does not fail.
C24_RejectsBadArguments ==
    [][(dbc'.op = "save_to_database" /\ dbc'.pc = "returned"
        /\ dbc.pc # "returned") =>
           IF Unacceptable(dbc'.args)
           THEN /\ ~dbc'.ret
                /\ ~dbc'.hasConn
                /\ dbc.pc = "idle"
                /\ conns' = conns
                /\ db' = db
           ELSE (~OnDisk(dbc'.args.path) /\ dbc'.failed = "none"
                 /\ db.exists) =>
                    /\ dbc'.ret
                    /\ WroteRecord(db', dbc'.args)]_vars

\* save_to_database has written the record of a path that is not on disk
C24_Witness ==
    /\ DbReturned("save_to_database")
    /\ dbc.ret
    /\ ~OnDisk(dbc.args.path)
    /\ WroteRecord(db, dbc.args)
-----------------------------------------------------------------------------
(* Claims about the order of the table creation and the inserts *)

SetupOps == {"setup_database", "hscheck.setup_database"}

SaveOps == {"save_to_database", "hscheck.save_to_database"}

\* the command has gone through a setup_database
SetupDone == \E j \in 1..Len(run.ops) : run.ops[j].op \in SetupOps

\* C25: in analyze --save-db, batch --save-db and the hscheck script, every
\* save_to_database of a command comes after a setup_database of the same
\* command: none is entered, and none has been gone through, before one.
C25_SetupBeforeSave ==
    /\ \A i \in 1..Len(run.ops) :
           run.ops[i].op \in SaveOps =>
               \E j \in 1..(i - 1) : run.ops[j].op \in SetupOps
    /\ (dbc.op = "save_to_database" /\ dbc.caller = "afc"
        /\ afc.caller = "run") => SetupDone

\* the hscheck script has saved a record after its setup_database
C25_Witness ==
    /\ run.handler = "hscheck.main"
    /\ Len(run.ops) = 2
    /\ run.ops[2].op = "hscheck.save_to_database"
    /\ Len(db.rows) > 0
-----------------------------------------------------------------------------
(* Claims about the validations of convert_audio *)

\* the validations in the order of the claim, each with whether the call
\* fails it
Validations(ev) ==
    << <<"empty", ev.file.path = <<>> \/ ev.output_dir = ""
                      \/ ev.target_format = <<>> >>,
       <<"format", Strip(Lower(ev.target_format), ".")
                       \notin SUPPORTED_FORMATS>>,
       <<"exists", ev.file.stat = "missing">>,
       <<"is_file", ev.file.stat # "file">>,
       <<"readable", ~ev.file.readable>> >>

\* the call fails one of the validations
FailsValidation(ev) == \E k \in 1..5 : Validations(ev)[k][2]

\* the first validation the call fails
FirstFailed(ev) ==
    Validations(ev)[CHOOSE k \in 1..5 :
                        /\ Validations(ev)[k][2]
                        /\ \A j \in 1..(k - 1) : ~Validations(ev)[j][2]][1]

\* C26: a convert_audio that fails a validation is turned away by the first
\* one it fails, in the order non-empty arguments, supported format, input
\* exists, input is a file, input readable; it returns False and leaves the
\* output directory as it was, not created.  A call that passes them all is
\* turned away by none.
C26_ValidatesBeforeMkdir ==
    \A i \in 1..Len(calls) :
        calls[i].op = "convert_audio" =>
            IF FailsValidation(calls[i])
            THEN /\ calls[i].rejected = FirstFailed(calls[i])
                 /\ calls[i].value = Bool(FALSE)
                 /\ out = calls[i].before
            ELSE calls[i].rejected = "none"

\* a call on a missing input with an unsupported format has been turned
\* away for its format while the output directory did not exist
C26_Witness ==
    /\ Len(calls) = 1
    /\ calls[1].op = "convert_audio"
    /\ calls[1].file.stat = "missing"
    /\ calls[1].rejected = "format"
    /\ ~out.exists
-----------------------------------------------------------------------------
(* Claims about the outputs of one convert batch *)

\* the conversions of the batch that returned True
Converted ==
    {i \in 1..Len(calls) :
        calls[i].op = "convert_audio" /\ calls[i].value = Bool(TRUE)}

\* C27: after a handle_convert over one folder and one target format, the
\* files the batch converted to are as many as the convert_audio calls that
\* returned True, and none was written again by a later conversion of the
\* batch.
C27_DistinctOutputs ==
    (run.handler = "handle_convert" /\ run.pc = "done") =>
        /\ Cardinality({calls[i].written : i \in Converted})
               = Cardinality(Converted)
        /\ \A i, j \in Converted :
               i < j => calls[i].written # calls[j].written
-----------------------------------------------------------------------------
(* Claims about the two discoveries of batch *)

\* the files the loop of the command is to process
Processed == {run.items[k].file : k \in 1..Len(run.items)}

\* the entries directly in the folder that the discovery without
\* --recursive takes: those whose suffix, in lower case, is an audio
\* extension
TakenDirectly ==
    {run.folder.entries[k] : k \in
        {k \in 1..Len(run.folder.entries) :
            Lower(Suffix(PathName(run.folder.entries[k].path)))
                \in {AUDIO_EXTENSIONS[n] : n \in 1..Len(AUDIO_EXTENSIONS)}}}

\* C28: on a folder that can be listed, batch --recursive processes every
\* file that batch without --recursive processes, whatever the letter case
\* of its extension, and it processes regular files only, each at most
\* once.
C28_RecursiveSuperset ==
    (/\ run.handler = "handle_batch"
     /\ run.folder.stat = "dir" /\ run.folder.readable
     /\ run.args.recursive
     /\ run.args.bpm # run.args.save_db) =>
        /\ TakenDirectly \subseteq Processed
        /\ \A f \in Processed : f.stat = "file"
        /\ Cardinality(Processed) = Len(run.items)
-----------------------------------------------------------------------------
(* Claims about the two BPM modules *)

\* the decoder reads the file and the tempo rounds to a value that is
\* collected
Audible(f) ==
    /\ f.stat = "file" /\ f.readable /\ f.content = "audio"
    /\ RoundTenths(f.tempo) # 0

\* the result list that depends on the folder and on what the decoder
\* reads alone: a pair for each listed audio file it reads, in listing
\* order
PairsOfAudible(folder) ==
    LET s == SelectSeq(ListAudio(folder.entries), Audible)
    IN  [k \in 1..Len(s) |->
            <<PathName(s[k].path), RoundTenths(s[k].tempo)>>]

BpmModules == {"discover_audio_files", "hsbpm.discover_audio_files"}

\* C29: bpm_analyser.py and analyzers/bpm.py are interchangeable: on an
\* existing readable folder, whatever the decoder meets in each file, both
\* discover_audio_files end with the same result list, a pair for each
\* file the decoder reads, and on the same list and the same log both
\* csv_writing leave the same file.
C29_ModulesInterchangeable ==
    /\ (/\ run.handler \in BpmModules
        /\ run.pc \in {"done", "crashed"}
        /\ run.folder.stat = "dir" /\ run.folder.readable) =>
           /\ run.raised = "none"
           /\ run.results = PairsOfAudible(run.folder)
    /\ \A i \in 1..Len(calls) :
           calls[i].op \in {"csv_writing", "hsbpm.csv_writing"} =>
               csv_writing(calls[i].before, calls[i].results,
                           calls[i].env).log
                   = hsbpm_csv_writing(calls[i].before, calls[i].results,
                                       calls[i].env).log
====
